---- MODULE Spec2Model ----
(***************************************************************************)
(* Henzai search engine: the crawler (src/src/crawler/spider.py), the      *)
(* inverted index and its storage (src/src/indexing/indexer.py,            *)
(* src/src/storage/database.py) and the hybrid search manager              *)
(* (src/src/search/search_manager.py).                                     *)
(*                                                                         *)
(* Several specifications share the module:                                *)
(*   Spec         one Spider and its worker pool (crawl)                   *)
(*   SpecIndex    one Indexer over one Database, called by several threads *)
(*   SpecSearch   one SearchManager with its cache and its three sources   *)
(*   SpecBlend    SearchManager._blend_results on bounded inputs           *)
(*   SpecHybrid   one hybrid search, step by step through its executor     *)
(*   SpecFallback SearchManager.search_with_fallback                       *)
(*   SpecRank     one Ranker over the Indexer's index                      *)
(*   SpecAutoFlush  the Indexer's background flusher                       *)
(*   SpecCrawlFair  Spec with every thread of the crawl running            *)
(***************************************************************************)
EXTENDS Integers, Sequences, FiniteSets, TLC

VARIABLES
    \* ---- Spider (spider.py) ----
    urls,              \* crawl() argument: the seed list (the same for every call)
    max_depth,         \* crawl() argument
    max_total_pages,   \* crawl() argument
    max_workers,       \* Spider.max_workers
    web,               \* the pages served during the crawl: URL -> hrefs of the page
    visited_urls,      \* Spider.visited_urls
    crawled_count,     \* Spider.crawled_count
    error_count,       \* Spider.error_count
    tasks,             \* every task submitted to the executor, in submission order
    future_tasks,      \* crawl()'s dict future -> depth, as the set of task numbers in it
    cpc,               \* where crawl() is: idle, seeds, seed_submit, wait, links, submit, returned
    seed_i,            \* position of the seed loop (line 94)
    new_links,         \* the rest of the list the link loop iterates (line 120)
    next_depth,        \* line 117
    cur_task,          \* history: the task whose links the link loop iterates
    crawl_result,      \* the dict crawl() returned
    indexCalls,        \* history: index_document calls per URL in this crawl
    visitedAdds,       \* history: insertions into visited_urls per URL in this crawl
    \* ---- Indexer (indexer.py) and Database (database.py) ----
    index,             \* Indexer.index: term -> list of [doc_id, freq]
    ilock,             \* Indexer._lock: the thread that holds it
    dlock,             \* Database._lock: the thread that holds it
    files,             \* the directory of the index file: path -> content
    ipc,               \* where each calling thread is
    idoc,              \* index_document's doc_id
    itokens,           \* index_document's tokens
    term_freq,         \* index_document's term_freq
    remaining,         \* the terms the merge loop has still to visit
    serializable,      \* flush's copy of the index, save_index's argument
    towrite,           \* the pieces of the JSON text json.dump has still to write
    failed,            \* save_index raised
    loaded,            \* the last load_index: what it raised to its caller, what
                       \* was raised inside it, and what it returned
    ncalls,            \* number of index_document calls made
    docTokens,         \* history: per document, the token lists of the completed calls
    lastSaved,         \* history: the snapshot of the last save_index that replaced the file
    flushedOk,         \* history: some flush has returned normally
    \* ---- SearchManager._blend_results (search_manager.py) ----
    blend_local,       \* argument local_results
    blend_api,         \* argument api_results
    blend_max,         \* argument max_results
    deduplicate,       \* SearchManager.deduplicate
    scored_results,    \* scored_results after the sort of line 442
    blended,           \* the list returned
    bpc,               \* ready: before the call, done: after it
    \* ---- SearchManager (search_manager.py) ----
    mode,              \* SearchManager.mode
    has_local,         \* local_ranker is configured
    has_google,        \* google_client is configured
    has_serpapi,       \* serpapi_client is configured
    has_cache,         \* cache_manager is configured
    cache,             \* the cache: key -> response
    nsearch,           \* number of search() calls made
    response,          \* what the last search() returned
    req_max,           \* max_results of the last search()
    called,            \* history: the calls the last search() made of each source
    was_hit,           \* history: the last search() was answered from the cache
    req_filters,       \* filters of the last search()
    req_query,         \* query of the last search()
    \* ---- SearchManager._search_hybrid, step by step ----
    hpc,               \* where the hybrid search is: call, collect, exit, fallback, blend, done
    hy_outcome,        \* the outcome of each call the search makes of a source
    hy_local,          \* _search_hybrid's local_results
    hy_api,            \* _search_hybrid's all_api_results
    \* ---- SearchManager.search_with_fallback ----
    primary,           \* Config.PRIMARY_SEARCH_ENGINE
    secondary,         \* Config.FALLBACK_SEARCH_ENGINE
    kw_max,            \* the caller passes max_results among the keyword arguments
    fb_outcome,        \* the outcome of the call of the primary and of the fallback engine
    fpc,               \* ready: before the call, done: after it
    \* ---- Ranker (ranker.py) ----
    rk_cache,          \* _cache_valid, _doc_lengths, _total_docs, _avg_doc_length
    rank_called,       \* history: rank() has been called
    rank_stats,        \* history: the statistics the last rank() scored with
    rank_index,        \* history: Indexer.index as it was at the last rank()
    rank_query,        \* the tokens of the query of the last rank()
    rank_top_k,        \* argument top_k of the last rank()
    rank_result,       \* the list the last rank() returned
    \* ---- Indexer's background flusher (indexer.py) ----
    flusher,           \* per thread: none, or where _auto_flush_loop is in it:
                       \* waiting, signaled, woken, flushing, dead, exited
    stop_event,        \* Indexer._stop_event is set
    flusher_thread,    \* Indexer._flusher_thread
    spc,               \* where stop_auto_flush is: idle, joining
    stopped,           \* history: the threads a stop_auto_flush that returned has stopped
    af_failed,         \* history: a flush of the flusher thread has raised
    af_last,           \* history: how its last flush ended: none, ok, raised
    \* ---- a second Indexer and Ranker over the same index file ----
    new_index,         \* the new Indexer's index
    new_saved,         \* history: what the index file held when it was constructed
    new_query,         \* the tokens of the query given to the new Ranker
    new_rank,          \* what the new Ranker's rank() returned
    ppc,               \* none, made (the new Indexer exists), ranked
    \* ---- QueryParser.parse (query_parser.py) ----
    parse_query,       \* argument query, as the sequence of its pieces
    parsed,            \* the ParsedQuery returned
    qpc,               \* unused, ready, done
    \* ---- AdvancedRanker.rank (advanced_ranker.py) ----
    adv_query,         \* argument query, as the sequence of its pieces
    adv_parsed,        \* the ParsedQuery of the query
    adv_index,         \* history: Indexer.index as it was at the call
    adv_result,        \* what the call raised and the list it returned
    apc,               \* unused, ready, done
    \* ---- Ranker._calculate_bm25_score (ranker.py) ----
    bm_args,           \* the parameters, the statistics and the two term frequencies
    bm_scores,         \* the scores of the two term frequencies
    bmpc,              \* unused, ready, done
    \* ---- crawl() called by two threads on one Spider (spider.py) ----
    call_pc,           \* per caller: unused, idle, seeds, wait, returned
    call_seeds,        \* per caller: the seeds the seed loop has still to submit
    call_futures,      \* per caller: the tasks in its future_tasks
    call_own,          \* history: per caller, the pages its own tasks counted
                       \* as crawled and as errors
    call_result        \* per caller: the dict its crawl() returned

crawlVars == << urls, max_depth, max_total_pages, max_workers, web, visited_urls,
                crawled_count, error_count, tasks, future_tasks, cpc, seed_i,
                new_links, next_depth, cur_task, crawl_result, indexCalls,
                visitedAdds >>

indexVars == << index, ilock, dlock, files, ipc, idoc, itokens, term_freq, remaining,
                serializable, towrite, failed, loaded, ncalls, docTokens,
                lastSaved, flushedOk >>

blendVars == << blend_local, blend_api, blend_max, deduplicate, scored_results,
                blended, bpc >>

searchVars == << mode, has_local, has_google, has_serpapi, has_cache, cache, nsearch,
                 response, req_max, called, was_hit, req_filters, req_query >>

hybridVars == << hpc, hy_outcome, hy_local, hy_api >>

fallbackVars == << primary, secondary, kw_max, fb_outcome, fpc >>

rankVars == << rk_cache, rank_called, rank_stats, rank_index, rank_query, rank_top_k,
              rank_result >>

persistVars == << new_index, new_saved, new_query, new_rank, ppc >>

\* the components added after the flusher
parseVars == << parse_query, parsed, qpc >>

advVars == << adv_query, adv_parsed, adv_index, adv_result, apc >>

bmVars == << bm_args, bm_scores, bmpc >>

callVars == << call_pc, call_seeds, call_futures, call_own, call_result >>

otherVars == << persistVars, parseVars, advVars, bmVars, callVars >>

autoVars == << flusher, stop_event, flusher_thread, spc, stopped, af_failed, af_last >>

vars == << crawlVars, indexVars, blendVars, searchVars, hybridVars, fallbackVars,
           rankVars, autoVars, otherVars >>

\* what the actions of one component leave alone
outsideSpider == << indexVars, blendVars, searchVars, hybridVars, fallbackVars,
                   rankVars, autoVars, otherVars >>
outsideIndexer == << crawlVars, blendVars, searchVars, hybridVars, fallbackVars,
                    rankVars, autoVars, otherVars >>
outsideBlend == << crawlVars, indexVars, searchVars, hybridVars, fallbackVars,
                  rankVars, autoVars, otherVars >>
outsideSearch == << crawlVars, indexVars, blendVars, hybridVars, fallbackVars,
                   rankVars, autoVars, otherVars >>
outsideHybrid == << crawlVars, indexVars, blendVars, fallbackVars, rankVars,
                   autoVars, otherVars >>
outsideFallback == << crawlVars, indexVars, blendVars, hybridVars, rankVars,
                     autoVars, otherVars >>
outsideAutoFlush == << crawlVars, blendVars, searchVars, hybridVars, fallbackVars,
                      rankVars, otherVars >>
outsidePersist == << crawlVars, blendVars, searchVars, hybridVars, fallbackVars,
                    rankVars, autoVars, parseVars, advVars, bmVars,
                     callVars >>
outsideParse == << crawlVars, indexVars, blendVars, searchVars, hybridVars,
                  fallbackVars, rankVars, autoVars, persistVars, advVars, bmVars,
                   callVars >>
outsideAdvanced == << crawlVars, blendVars, searchVars, hybridVars, fallbackVars,
                     autoVars, persistVars, parseVars, bmVars,
                      callVars >>
outsideBm25 == << crawlVars, indexVars, blendVars, searchVars, hybridVars, fallbackVars,
                 rankVars, autoVars, persistVars, parseVars, advVars,
                  callVars >>
outsideCalls == << indexVars, blendVars, searchVars, hybridVars, fallbackVars,
                  rankVars, autoVars, persistVars, parseVars, advVars, bmVars >>
outsideRanker == << crawlVars, blendVars, searchVars, hybridVars, fallbackVars,
                   autoVars, otherVars >>

----------------------------------------------------------------------------
(* Helpers *)

SeqsUpTo(S, n) == UNION { [1..k -> S] : k \in 0..n }

RECURSIVE SelectSeqBy(_, _)
\* the subsequence of s whose elements are in the set keep
SelectSeqBy(s, keep) ==
    IF s = << >> THEN << >>
    ELSE IF Head(s) \in keep
         THEN << Head(s) >> \o SelectSeqBy(Tail(s), keep)
         ELSE SelectSeqBy(Tail(s), keep)

----------------------------------------------------------------------------
(* Spider *)

\* bounds of the crawl model
MaxDepthBound == 2
MaxPagesBound == 2
MaxWorkersBound == 2

\* absolute URLs (fragment already stripped, line 186)
URLs == { "http://a/", "https://a/", "http://a/p", "http://b/" }

\* the seed lists a crawl is started from: none, one seed, a seed listed
\* twice, seeds of two domains
SeedLists ==
    { << >>, << "http://a/" >>, << "http://b/" >>, << "http://a/", "http://a/" >>,
      << "http://a/", "http://b/" >>, << "http://b/", "https://a/" >> }

\* urlparse(url).netloc
Netloc(u) ==
    CASE u = "http://a/"  -> "a"
      [] u = "https://a/" -> "a"
      [] u = "http://a/p" -> "a"
      [] u = "http://b/"  -> "b"

\* the webs crawled: a cycle through the seed with a self link and links to
\* another domain; a page that lists a link twice and two pages that link to
\* the same page
WebCycle ==
    [ u \in URLs |->
        CASE u = "http://a/"  -> << "https://a/", "http://b/", "http://a/" >>
          [] u = "https://a/" -> << "http://a/p", "http://a/" >>
          [] u = "http://a/p" -> << "http://a/", "http://a/p" >>
          [] u = "http://b/"  -> << "http://a/" >> ]

WebDiamond ==
    [ u \in URLs |->
        CASE u = "http://a/"  -> << "http://a/p", "http://a/p", "https://a/" >>
          [] u = "https://a/" -> << "http://a/p" >>
          [] u = "http://a/p" -> << >>
          [] u = "http://b/"  -> << "http://b/", "https://a/" >> ]

Webs == { WebCycle, WebDiamond }

\* mutant of IsSameDomain: every absolute link is accepted
IsSameDomainAnyNetloc(base_url, target_url) == target_url \in URLs

\* Spider._is_same_domain
IsSameDomain(base_url, target_url) == Netloc(base_url) = Netloc(target_url)

\* the link extraction loop of _crawl_and_extract: the hrefs of the page that
\* are on the page's own domain, in page order
ExtractLinks(url, hrefs) ==
    SelectSeqBy(hrefs, { h \in URLs : IsSameDomain(url, h) })

\* a submitted task: executor.submit(self._crawl_and_extract, url, depth, max_depth)
\* with its future's state; parent, counted, failed and visitedAtSubmit are history
Task(u, d, par, v) ==
    [ url |-> u, depth |-> d, status |-> "queued", hrefs |-> << >>, links |-> << >>,
      parent |-> par, counted |-> FALSE, failed |-> FALSE, visitedAtSubmit |-> v ]

\* the tasks that occupy a worker thread of the pool
Running == { t \in DOMAIN tasks : tasks[t].status \in { "fetching", "indexed" } }

\* the seed loop may submit: line 95
SeedBudgetLeft == crawled_count < max_total_pages

\* mutant of DepthAllowed: the guard compares the depth of the page, not of its links
DepthAllowedOffByOne(nd) == nd - 1 <= max_depth

\* the link loop's depth guard: line 119
DepthAllowed(nd) == nd <= max_depth

\* the link loop's guard: line 121 (and its re-check under the lock, line 126)
MaySchedule(link) == crawled_count < max_total_pages /\ link \notin visited_urls

\* crawl() has not returned
NoResult == [ crawled |-> -1, errors |-> -1, requested |-> -1 ]

\* a Spider on which crawl() is never called
QuietSpider ==
    /\ urls = << >>
    /\ max_depth = 0
    /\ max_total_pages = 0
    /\ max_workers = 1
    /\ web = WebCycle
    /\ visited_urls = {}
    /\ crawled_count = 0
    /\ error_count = 0
    /\ tasks = << >>
    /\ future_tasks = {}
    /\ cpc = "unused"
    /\ seed_i = 1
    /\ new_links = << >>
    /\ next_depth = 0
    /\ cur_task = 0
    /\ crawl_result = NoResult
    /\ indexCalls = [ u \in URLs |-> 0 ]
    /\ visitedAdds = [ u \in URLs |-> 0 ]

InitSpider ==
    /\ urls \in SeedLists
    /\ max_depth \in 0..MaxDepthBound
    /\ max_total_pages \in 0..MaxPagesBound
    /\ max_workers \in 1..MaxWorkersBound
    /\ web \in Webs
    /\ visited_urls = {}
    /\ crawled_count = 0
    /\ error_count = 0
    /\ tasks = << >>
    /\ future_tasks = {}
    /\ cpc = "idle"
    /\ seed_i = 1
    /\ new_links = << >>
    /\ next_depth = 0
    /\ cur_task = 0
    /\ crawl_result = NoResult
    /\ indexCalls = [ u \in URLs |-> 0 ]
    /\ visitedAdds = [ u \in URLs |-> 0 ]

\* crawl(): lines 74-89, the reset of the job state
CrawlCall ==
    /\ cpc \in { "idle", "returned" }
    /\ visited_urls' = {}
    /\ crawled_count' = 0
    /\ error_count' = 0
    /\ tasks' = << >>
    /\ future_tasks' = {}
    /\ seed_i' = 1
    /\ cpc' = "seeds"
    /\ new_links' = << >>
    /\ next_depth' = 0
    /\ cur_task' = 0
    /\ crawl_result' = NoResult
    /\ indexCalls' = [ u \in URLs |-> 0 ]
    /\ visitedAdds' = [ u \in URLs |-> 0 ]
    /\ UNCHANGED << urls, max_depth, max_total_pages, max_workers, web >>
    /\ UNCHANGED outsideSpider

\* lines 94-96: the seed loop reads crawled_count and goes on to submit
SeedCheck ==
    /\ cpc = "seeds"
    /\ seed_i <= Len(urls)
    /\ SeedBudgetLeft
    /\ cpc' = "seed_submit"
    /\ UNCHANGED << urls, max_depth, max_total_pages, max_workers, web, visited_urls,
                    crawled_count, error_count, tasks, future_tasks, seed_i,
                    new_links, next_depth, cur_task, crawl_result, indexCalls,
                    visitedAdds >>
    /\ UNCHANGED outsideSpider

\* line 98: the seed is submitted, whatever the workers counted since the check
SubmitSeed ==
    /\ cpc = "seed_submit"
    /\ cpc' = "seeds"
    /\ tasks' = Append(tasks, Task(urls[seed_i], 0, 0, urls[seed_i] \in visited_urls))
    /\ future_tasks' = future_tasks \cup { Len(tasks) + 1 }
    /\ seed_i' = seed_i + 1
    /\ UNCHANGED << urls, max_depth, max_total_pages, max_workers, web, visited_urls,
                    crawled_count, error_count, new_links, next_depth, cur_task,
                    crawl_result, indexCalls, visitedAdds >>
    /\ UNCHANGED outsideSpider

\* lines 94-96: the seed loop ends, by exhaustion or by the break
SeedsDone ==
    /\ cpc = "seeds"
    /\ seed_i > Len(urls) \/ ~SeedBudgetLeft
    /\ cpc' = "wait"
    /\ UNCHANGED << urls, max_depth, max_total_pages, max_workers, web, visited_urls,
                    crawled_count, error_count, tasks, future_tasks, seed_i,
                    new_links, next_depth, cur_task, crawl_result, indexCalls,
                    visitedAdds >>
    /\ UNCHANGED outsideSpider

\* ThreadPoolExecutor: a free worker takes the oldest queued task
StartTask(t) ==
    /\ t \in DOMAIN tasks
    /\ tasks[t].status = "queued"
    /\ \A e \in 1..(t - 1) : tasks[e].status # "queued"
    /\ Cardinality(Running) < max_workers
    /\ tasks' = [ tasks EXCEPT ![t].status = "fetching" ]
    /\ UNCHANGED << urls, max_depth, max_total_pages, max_workers, web, visited_urls,
                    crawled_count, error_count, future_tasks, cpc, seed_i,
                    new_links, next_depth, cur_task, crawl_result,
                    indexCalls, visitedAdds >>
    /\ UNCHANGED outsideSpider

\* an except handler that does not count
CountErrorNot(n) == n

\* lines 195-196 and 200-201: self.error_count += 1 under the lock
CountError(n) == n + 1

\* _crawl_and_extract, lines 156-159 and 194-204: the fetch, or the processing
\* before index_document, raises
FetchFails(t) ==
    /\ tasks[t].status = "fetching"
    /\ tasks' = [ tasks EXCEPT ![t].status = "done", ![t].failed = TRUE ]
    /\ error_count' = CountError(error_count)
    /\ UNCHANGED << urls, max_depth, max_total_pages, max_workers, web, visited_urls,
                    crawled_count, future_tasks, cpc, seed_i, new_links,
                    next_depth, cur_task, crawl_result, indexCalls, visitedAdds >>
    /\ UNCHANGED outsideSpider

\* lines 161-163: the response is not HTML
FetchNonHtml(t) ==
    /\ tasks[t].status = "fetching"
    /\ tasks' = [ tasks EXCEPT ![t].status = "done" ]
    /\ UNCHANGED << urls, max_depth, max_total_pages, max_workers, web, visited_urls,
                    crawled_count, error_count, future_tasks, cpc, seed_i,
                    new_links, next_depth, cur_task, crawl_result, indexCalls,
                    visitedAdds >>
    /\ UNCHANGED outsideSpider

\* lines 156-170: the page is fetched, tokenized and merged into the index
FetchAndIndex(t) ==
    /\ tasks[t].status = "fetching"
    /\ tasks' = [ tasks EXCEPT ![t].status = "indexed", ![t].hrefs = web[tasks[t].url] ]
    /\ indexCalls' = [ indexCalls EXCEPT ![tasks[t].url] = @ + 1 ]
    /\ UNCHANGED << urls, max_depth, max_total_pages, max_workers, web, visited_urls,
                    crawled_count, error_count, future_tasks, cpc, seed_i,
                    new_links, next_depth, cur_task, crawl_result, visitedAdds >>
    /\ UNCHANGED outsideSpider

\* lines 178-192: the page is counted and its same-domain links are returned
CountAndExtract(t) ==
    /\ tasks[t].status = "indexed"
    /\ tasks' = [ tasks EXCEPT ![t].status = "done", ![t].counted = TRUE,
                               ![t].links = ExtractLinks(tasks[t].url, tasks[t].hrefs) ]
    /\ crawled_count' = crawled_count + 1
    /\ UNCHANGED << urls, max_depth, max_total_pages, max_workers, web, visited_urls,
                    error_count, future_tasks, cpc, seed_i, new_links,
                    next_depth, cur_task, crawl_result, indexCalls, visitedAdds >>
    /\ UNCHANGED outsideSpider

\* lines 173-176 and 199-204: document_store.add_document raises after the
\* page was merged into the index
StoreFails(t) ==
    /\ tasks[t].status = "indexed"
    /\ tasks' = [ tasks EXCEPT ![t].status = "done", ![t].failed = TRUE ]
    /\ error_count' = CountError(error_count)
    /\ UNCHANGED << urls, max_depth, max_total_pages, max_workers, web, visited_urls,
                    crawled_count, future_tasks, cpc, seed_i, new_links,
                    next_depth, cur_task, crawl_result, indexCalls, visitedAdds >>
    /\ UNCHANGED outsideSpider

\* lines 101-119: the next completed future is popped and its links are taken
TakeCompleted ==
    /\ cpc = "wait"
    /\ \E t \in future_tasks :
          /\ tasks[t].status = "done"
          /\ future_tasks' = future_tasks \ { t }
          /\ tasks' = [ tasks EXCEPT ![t].status = "popped", ![t].hrefs = << >>,
                                     ![t].links = << >> ]
          /\ IF /\ crawled_count < max_total_pages
                /\ tasks[t].links # << >>
                /\ DepthAllowed(tasks[t].depth + 1)
             THEN /\ cpc' = "links"
                  /\ new_links' = tasks[t].links
                  /\ next_depth' = tasks[t].depth + 1
                  /\ cur_task' = t
             ELSE UNCHANGED << cpc, new_links, next_depth, cur_task >>
    /\ UNCHANGED << urls, max_depth, max_total_pages, max_workers, web, visited_urls,
                    crawled_count, error_count, seed_i, crawl_result,
                    indexCalls, visitedAdds >>
    /\ UNCHANGED outsideSpider

\* lines 120-128: one iteration of the link loop up to the submission: the
\* loop reads crawled_count and visited_urls, and marks the link visited
ScheduleLink ==
    /\ cpc = "links"
    /\ LET link == Head(new_links) IN
          IF MaySchedule(link)
          THEN /\ visited_urls' = visited_urls \cup { link }
               /\ visitedAdds' = [ visitedAdds EXCEPT ![link] = @ + 1 ]
               /\ cpc' = "submit"
               /\ UNCHANGED new_links
          ELSE /\ new_links' = Tail(new_links)
               /\ cpc' = IF Tail(new_links) = << >> THEN "wait" ELSE "links"
               /\ UNCHANGED << visited_urls, visitedAdds >>
    /\ UNCHANGED << urls, max_depth, max_total_pages, max_workers, web, crawled_count,
                    error_count, tasks, future_tasks, seed_i, next_depth, cur_task,
                    crawl_result, indexCalls >>
    /\ UNCHANGED outsideSpider

\* lines 131-132: the link is submitted, whatever the workers counted since
\* the check of line 121
SubmitLink ==
    /\ cpc = "submit"
    /\ LET link == Head(new_links) IN
          /\ tasks' = Append(tasks, Task(link, next_depth, cur_task, link \in visited_urls))
          /\ future_tasks' = future_tasks \cup { Len(tasks) + 1 }
          /\ new_links' = Tail(new_links)
          /\ cpc' = IF Tail(new_links) = << >> THEN "wait" ELSE "links"
    /\ UNCHANGED << urls, max_depth, max_total_pages, max_workers, web, visited_urls,
                    crawled_count, error_count, seed_i, next_depth, cur_task,
                    crawl_result, indexCalls, visitedAdds >>
    /\ UNCHANGED outsideSpider

\* lines 101 and 138-145: no future is left, crawl() returns its statistics
CrawlReturn ==
    /\ cpc = "wait"
    /\ future_tasks = {}
    /\ cpc' = "returned"
    /\ crawl_result' = [ crawled |-> crawled_count, errors |-> error_count,
                         requested |-> Len(urls) ]
    /\ UNCHANGED << urls, max_depth, max_total_pages, max_workers, web, visited_urls,
                    crawled_count, error_count, tasks, future_tasks, seed_i,
                    new_links, next_depth, cur_task, indexCalls, visitedAdds >>
    /\ UNCHANGED outsideSpider

NextSpider ==
    \/ CrawlCall
    \/ SeedCheck
    \/ SubmitSeed
    \/ SeedsDone
    \/ \E t \in DOMAIN tasks : StartTask(t)
    \/ \E t \in DOMAIN tasks : FetchFails(t)
    \/ \E t \in DOMAIN tasks : FetchNonHtml(t)
    \/ \E t \in DOMAIN tasks : FetchAndIndex(t)
    \/ \E t \in DOMAIN tasks : CountAndExtract(t)
    \/ \E t \in DOMAIN tasks : StoreFails(t)
    \/ TakeCompleted
    \/ ScheduleLink
    \/ SubmitLink
    \/ CrawlReturn

----------------------------------------------------------------------------
(* Indexer and Database *)

\* bounds of the index model
MaxIndexCalls == 2

Threads == { "t1", "t2" }
Terms == { "alpha", "beta" }
Docs == { "doc1", "doc2" }

\* the order in which a snapshot's terms are written
TermOrder == << "alpha", "beta" >>

\* the token lists documents are indexed with
TokenLists ==
    { << >>, << "alpha" >>, << "beta", "alpha" >>, << "alpha", "alpha", "beta" >> }

NoThread == "none"

\* a path without a file, and a file with its text
Absent == [ exists |-> FALSE, text |-> << >> ]
File(txt) == [ exists |-> TRUE, text |-> txt ]

\* Database.filename, and the name tempfile.mkstemp gives thread t (line 39)
IndexFile == "index.json"
MkstempPathInPlace(t) == IndexFile
MkstempPath(t) == "tmp_" \o t
Paths == { IndexFile } \cup { "tmp_" \o t : t \in Threads }

\* the empty dict
EmptyIndex == << >>

\* d[k] = v on a dict
DictPut(d, k, v) == [ x \in (DOMAIN d) \cup { k } |-> IF x = k THEN v ELSE d[x] ]

RECURSIVE CountIn(_, _)
\* occurrences of x in the sequence s
CountIn(x, s) ==
    IF s = << >> THEN 0
    ELSE (IF Head(s) = x THEN 1 ELSE 0) + CountIn(x, Tail(s))

RECURSIVE TermFreqLoop(_, _)
\* index_document lines 39-41: term_freq[token] += 1 for every token
TermFreqLoop(tf, toks) ==
    IF toks = << >> THEN tf
    ELSE TermFreqLoop(
            DictPut(tf, Head(toks), (IF Head(toks) \in DOMAIN tf THEN tf[Head(toks)] ELSE 0) + 1),
            Tail(toks))

TermFreq(toks) == TermFreqLoop(EmptyIndex, toks)

RECURSIVE FirstOccurrences(_, _)
\* the keys of term_freq in insertion order
FirstOccurrences(toks, seen) ==
    IF toks = << >> THEN << >>
    ELSE IF Head(toks) \in seen
         THEN FirstOccurrences(Tail(toks), seen)
         ELSE << Head(toks) >> \o FirstOccurrences(Tail(toks), seen \cup { Head(toks) })

\* postings = self.index[term] on the defaultdict (line 45)
PostingsOf(idx, term) == IF term \in DOMAIN idx THEN idx[term] ELSE << >>

\* position of the first posting of doc_id in postings, 0 when there is none
FirstPosting(postings, doc_id) ==
    IF \E i \in DOMAIN postings : postings[i][1] = doc_id
    THEN CHOOSE i \in DOMAIN postings :
            /\ postings[i][1] = doc_id
            /\ \A j \in 1..(i - 1) : postings[j][1] # doc_id
    ELSE 0

\* mutant of MergePosting: the posting's frequency is assigned, not incremented
MergePostingAssign(postings, doc_id, freq) ==
    LET i == FirstPosting(postings, doc_id) IN
    IF i # 0 THEN [ postings EXCEPT ![i] = << doc_id, freq >> ]
    ELSE Append(postings, << doc_id, freq >>)

\* mutant of MergePosting: a posting is appended without looking for the document
MergePostingAppend(postings, doc_id, freq) == Append(postings, << doc_id, freq >>)

\* index_document lines 46-53: merge into the posting of doc_id or append one
MergePosting(postings, doc_id, freq) ==
    LET i == FirstPosting(postings, doc_id) IN
    IF i # 0 THEN [ postings EXCEPT ![i] = << doc_id, postings[i][2] + freq >> ]
    ELSE Append(postings, << doc_id, freq >>)

\* a piece of JSON text: a brace, or a member "term": [[doc_id, freq], ...]
Brace(b) == [ key |-> b, value |-> << >> ]

RECURSIVE SerializeTerms(_, _)
SerializeTerms(idx, order) ==
    IF order = << >> THEN << >>
    ELSE (IF Head(order) \in DOMAIN idx
          THEN << [ key |-> Head(order), value |-> idx[Head(order)] ] >>
          ELSE << >>) \o SerializeTerms(idx, Tail(order))

\* mutant of Serialize: the closing brace is not written
SerializeUnclosed(idx) == << Brace("{") >> \o SerializeTerms(idx, TermOrder)

\* json.dump(index, f) (line 43): the text of a dict, as its pieces in the
\* order they are written: the opening brace, one member per term, the closing brace
Serialize(idx) == << Brace("{") >> \o SerializeTerms(idx, TermOrder) \o << Brace("}") >>

RECURSIVE ParseMembers(_, _)
\* the dict of a sequence of members; a repeated key keeps its last value
ParseMembers(members, acc) ==
    IF members = << >> THEN acc
    ELSE ParseMembers(Tail(members), DictPut(acc, Head(members).key, Head(members).value))

\* whether json.load accepts the text
WellFormed(text) ==
    /\ Len(text) >= 2
    /\ text[1] = Brace("{")
    /\ text[Len(text)] = Brace("}")
    /\ \A i \in 2..(Len(text) - 1) : text[i].key \notin { "{", "}" }

\* Database.load_index lines 57-64 on the content of the index file
LoadIndex(file) ==
    IF ~file.exists THEN EmptyIndex
    ELSE IF WellFormed(file.text)
         THEN ParseMembers(SubSeq(file.text, 2, Len(file.text) - 1), EmptyIndex)
         ELSE EmptyIndex

\* what open() (line 60) or json.load (line 61) raises on the file; open()
\* raises OSError for a file that cannot be read
LoadRaises(file, unreadable) ==
    IF unreadable THEN "OSError"
    ELSE IF ~WellFormed(file.text) THEN "ValueError"
    ELSE "none"

\* mutant of LoadCatches: only OSError is caught
LoadCatchesOSError == { "OSError" }

\* line 62: except (OSError, ValueError)
LoadCatches == { "OSError", "ValueError" }

\* no load_index yet
NotLoaded == [ raised |-> "none", error |-> "none", value |-> EmptyIndex ]

\* Database.load_index lines 57-64: {} for no file (line 58) and for a caught
\* exception (line 64); an exception that is not caught reaches the caller
LoadIndexCall(file, unreadable) ==
    IF ~file.exists THEN NotLoaded
    ELSE LET e == LoadRaises(file, unreadable) IN
         IF e = "none"
         THEN [ raised |-> "none", error |-> "none", value |-> LoadIndex(file) ]
         ELSE IF e \in LoadCatches
              THEN [ raised |-> "none", error |-> e, value |-> EmptyIndex ]
              ELSE [ raised |-> e, error |-> e, value |-> EmptyIndex ]

\* the frequency stored for (term, doc_id): that of the document's first posting
StoredFreq(idx, term, doc_id) ==
    LET ps == PostingsOf(idx, term)
        i == FirstPosting(ps, doc_id)
    IN IF i = 0 THEN 0 ELSE ps[i][2]

InitIndexer ==
    /\ index = EmptyIndex
    /\ ilock = NoThread
    /\ dlock = NoThread
    /\ files = [ p \in Paths |-> Absent ]
    /\ ipc = [ t \in Threads |-> "idle" ]
    /\ idoc = [ t \in Threads |-> "doc1" ]
    /\ itokens = [ t \in Threads |-> << >> ]
    /\ term_freq = [ t \in Threads |-> EmptyIndex ]
    /\ remaining = [ t \in Threads |-> << >> ]
    /\ serializable = [ t \in Threads |-> EmptyIndex ]
    /\ towrite = [ t \in Threads |-> << >> ]
    /\ failed = [ t \in Threads |-> FALSE ]
    /\ loaded = NotLoaded
    /\ ncalls = 0
    /\ docTokens = [ d \in Docs |-> << >> ]
    /\ lastSaved = EmptyIndex
    /\ flushedOk = FALSE

\* index_document lines 39-41: the call and its per-call term frequencies
IndexDocumentCall(t) ==
    /\ ipc[t] = "idle"
    /\ ncalls < MaxIndexCalls
    /\ \E d \in Docs, toks \in TokenLists :
          /\ idoc' = [ idoc EXCEPT ![t] = d ]
          /\ itokens' = [ itokens EXCEPT ![t] = toks ]
          /\ term_freq' = [ term_freq EXCEPT ![t] = TermFreq(toks) ]
    /\ ncalls' = ncalls + 1
    /\ ipc' = [ ipc EXCEPT ![t] = "idx_lock" ]
    /\ UNCHANGED << index, ilock, dlock, files, remaining, serializable, towrite,
                    failed, loaded, docTokens, lastSaved, flushedOk >>
    /\ UNCHANGED outsideIndexer

\* line 43: with self._lock
IndexAcquire(t) ==
    /\ ipc[t] = "idx_lock"
    /\ ilock = NoThread
    /\ ilock' = t
    /\ remaining' = [ remaining EXCEPT ![t] = FirstOccurrences(itokens[t], {}) ]
    /\ ipc' = [ ipc EXCEPT ![t] = "idx_merge" ]
    /\ UNCHANGED << index, dlock, files, idoc, itokens, term_freq, serializable,
                    towrite, failed, loaded, ncalls, docTokens, lastSaved, flushedOk >>
    /\ UNCHANGED outsideIndexer

\* lines 44-53: one iteration of the loop over term_freq.items()
IndexMergeTerm(t) ==
    /\ ipc[t] = "idx_merge"
    /\ remaining[t] # << >>
    /\ LET term == Head(remaining[t]) IN
          index' = DictPut(index, term,
                           MergePosting(PostingsOf(index, term), idoc[t], term_freq[t][term]))
    /\ remaining' = [ remaining EXCEPT ![t] = Tail(@) ]
    /\ UNCHANGED << ilock, dlock, files, ipc, idoc, itokens, term_freq, serializable,
                    towrite, failed, loaded, ncalls, docTokens, lastSaved, flushedOk >>
    /\ UNCHANGED outsideIndexer

\* the end of the with block: the lock is released and index_document returns
IndexRelease(t) ==
    /\ ipc[t] = "idx_merge"
    /\ remaining[t] = << >>
    /\ ilock' = NoThread
    /\ ipc' = [ ipc EXCEPT ![t] = "idle" ]
    /\ docTokens' = [ docTokens EXCEPT ![idoc[t]] = Append(@, itokens[t]) ]
    /\ idoc' = [ idoc EXCEPT ![t] = "doc1" ]
    /\ itokens' = [ itokens EXCEPT ![t] = << >> ]
    /\ term_freq' = [ term_freq EXCEPT ![t] = EmptyIndex ]
    /\ UNCHANGED << index, dlock, files, remaining,
                    serializable, towrite, failed, loaded, ncalls, lastSaved, flushedOk >>
    /\ UNCHANGED outsideIndexer

\* mutant of FlushAcquireStep: the index is copied without waiting for the lock
FlushAcquireStepUnlocked(t) ==
    /\ ipc[t] = "idle"
    /\ ilock' = t
    /\ serializable' = [ serializable EXCEPT ![t] = index ]
    /\ ipc' = [ ipc EXCEPT ![t] = "save_lock" ]
    /\ UNCHANGED << index, dlock, files, idoc, itokens, term_freq, remaining,
                    towrite, failed, loaded, ncalls, docTokens, lastSaved, flushedOk >>

\* flush lines 61-63: the lock is taken and the index is copied
FlushAcquireStep(t) ==
    /\ ipc[t] = "idle"
    /\ ilock = NoThread
    /\ ilock' = t
    /\ serializable' = [ serializable EXCEPT ![t] = index ]
    /\ ipc' = [ ipc EXCEPT ![t] = "save_lock" ]
    /\ UNCHANGED << index, dlock, files, idoc, itokens, term_freq, remaining,
                    towrite, failed, loaded, ncalls, docTokens, lastSaved, flushedOk >>

\* flush() called by a thread of the application
FlushAcquire(t) ==
    /\ FlushAcquireStep(t)
    /\ UNCHANGED outsideIndexer

\* save_index lines 30-39: the database lock is taken and the temp file made
SaveAcquire(t) ==
    /\ ipc[t] = "save_lock"
    /\ dlock = NoThread
    /\ dlock' = t
    /\ files' = [ files EXCEPT ![MkstempPath(t)] = File(<< >>) ]
    /\ towrite' = [ towrite EXCEPT ![t] = Serialize(serializable[t]) ]
    /\ ipc' = [ ipc EXCEPT ![t] = "save_write" ]
    /\ UNCHANGED << index, ilock, idoc, itokens, term_freq, remaining, serializable,
                    failed, loaded, ncalls, docTokens, lastSaved, flushedOk >>
    /\ UNCHANGED outsideIndexer

\* lines 41-43: json.dump writes the next piece of the text to the temp file
SaveWrite(t) ==
    /\ ipc[t] = "save_write"
    /\ towrite[t] # << >>
    /\ files' = [ files EXCEPT ![MkstempPath(t)] = File(Append(@.text, Head(towrite[t]))) ]
    /\ towrite' = [ towrite EXCEPT ![t] = Tail(@) ]
    /\ UNCHANGED << index, ilock, dlock, ipc, idoc, itokens, term_freq, remaining,
                    serializable, failed, loaded, ncalls, docTokens, lastSaved, flushedOk >>
    /\ UNCHANGED outsideIndexer

\* lines 41-45: a write, the close or os.replace raises OSError
SaveFails(t) ==
    /\ ipc[t] = "save_write"
    /\ failed' = [ failed EXCEPT ![t] = TRUE ]
    /\ ipc' = [ ipc EXCEPT ![t] = "save_finally" ]
    /\ UNCHANGED << index, ilock, dlock, files, idoc, itokens, term_freq, remaining,
                    serializable, towrite, loaded, ncalls, docTokens, lastSaved,
                    flushedOk >>
    /\ UNCHANGED outsideIndexer

\* line 45: os.replace(tmp_path, self.filename)
SaveReplace(t) ==
    /\ ipc[t] = "save_write"
    /\ towrite[t] = << >>
    /\ files' = [ files EXCEPT ![IndexFile] = files[MkstempPath(t)],
                               ![MkstempPath(t)] = IF MkstempPath(t) = IndexFile
                                                   THEN files[MkstempPath(t)] ELSE Absent ]
    /\ lastSaved' = serializable[t]
    /\ ipc' = [ ipc EXCEPT ![t] = "save_finally" ]
    /\ UNCHANGED << index, ilock, dlock, idoc, itokens, term_freq, remaining,
                    serializable, towrite, failed, loaded, ncalls, docTokens,
                    flushedOk >>
    /\ UNCHANGED outsideIndexer

\* lines 46-52: the temp file is removed if it is still there, and the
\* database lock is released
SaveFinally(t) ==
    /\ ipc[t] = "save_finally"
    /\ files' = [ files EXCEPT ![MkstempPath(t)] = IF MkstempPath(t) = IndexFile
                                                   THEN @ ELSE Absent ]
    /\ dlock' = NoThread
    /\ ipc' = [ ipc EXCEPT ![t] = "flush_exit" ]
    /\ UNCHANGED << index, ilock, idoc, itokens, term_freq, remaining, serializable,
                    towrite, failed, loaded, ncalls, docTokens, lastSaved, flushedOk >>
    /\ UNCHANGED outsideIndexer

\* flush line 64 and the end of its with block: save_index returned or
\* raised, the index lock is released
FlushReleaseStep(t) ==
    /\ ipc[t] = "flush_exit"
    /\ ilock' = NoThread
    /\ flushedOk' = (flushedOk \/ ~failed[t])
    /\ ipc' = [ ipc EXCEPT ![t] = "idle" ]
    /\ serializable' = [ serializable EXCEPT ![t] = EmptyIndex ]
    /\ towrite' = [ towrite EXCEPT ![t] = << >> ]
    /\ failed' = [ failed EXCEPT ![t] = FALSE ]
    /\ UNCHANGED << index, dlock, files, idoc, itokens, term_freq, remaining,
                    loaded, ncalls, docTokens, lastSaved >>

\* flush() returns to, or raises in, the thread of the application that called
FlushRelease(t) ==
    /\ FlushReleaseStep(t)
    /\ UNCHANGED outsideIndexer

\* load_index line 56: with self._lock
LoadAcquire(t) ==
    /\ ipc[t] = "idle"
    /\ dlock = NoThread
    /\ dlock' = t
    /\ ipc' = [ ipc EXCEPT ![t] = "load_read" ]
    /\ UNCHANGED << index, ilock, files, idoc, itokens, term_freq, remaining,
                    serializable, towrite, failed, loaded, ncalls, docTokens,
                    lastSaved, flushedOk >>
    /\ UNCHANGED outsideIndexer

\* load_index lines 57-64: the file is read and parsed, the lock released
\* (also when the call raises: the with block of line 56)
LoadRead(t) ==
    /\ ipc[t] = "load_read"
    /\ \E unreadable \in BOOLEAN :
          loaded' = LoadIndexCall(files[IndexFile], unreadable)
    /\ dlock' = NoThread
    /\ ipc' = [ ipc EXCEPT ![t] = "idle" ]
    /\ UNCHANGED << index, ilock, files, idoc, itokens, term_freq, remaining,
                    serializable, towrite, failed, ncalls, docTokens, lastSaved,
                    flushedOk >>
    /\ UNCHANGED outsideIndexer

NextIndexer ==
    \/ \E t \in Threads : IndexDocumentCall(t)
    \/ \E t \in Threads : IndexAcquire(t)
    \/ \E t \in Threads : IndexMergeTerm(t)
    \/ \E t \in Threads : IndexRelease(t)
    \/ \E t \in Threads : FlushAcquire(t)
    \/ \E t \in Threads : SaveAcquire(t)
    \/ \E t \in Threads : SaveWrite(t)
    \/ \E t \in Threads : SaveFails(t)
    \/ \E t \in Threads : SaveReplace(t)
    \/ \E t \in Threads : SaveFinally(t)
    \/ \E t \in Threads : FlushRelease(t)
    \/ \E t \in Threads : LoadAcquire(t)
    \/ \E t \in Threads : LoadRead(t)

\* the pieces of the texts an index file is found with
FilePieces == { Brace("{"), Brace("}"), [ key |-> "alpha", value |-> << << "doc1", 1 >> >> ] }

\* bound of the length of those texts
MaxFileLen == 3

\* the index file as load_index can find it: absent, or with any text
FoundFiles == { Absent } \cup { File(txt) : txt \in SeqsUpTo(FilePieces, MaxFileLen) }

\* a Database over a file that something else has left there
InitLoad ==
    /\ index = EmptyIndex
    /\ ilock = NoThread
    /\ dlock = NoThread
    /\ \E f \in FoundFiles :
          files = [ p \in Paths |-> IF p = IndexFile THEN f ELSE Absent ]
    /\ ipc = [ t \in Threads |-> "idle" ]
    /\ idoc = [ t \in Threads |-> "doc1" ]
    /\ itokens = [ t \in Threads |-> << >> ]
    /\ term_freq = [ t \in Threads |-> EmptyIndex ]
    /\ remaining = [ t \in Threads |-> << >> ]
    /\ serializable = [ t \in Threads |-> EmptyIndex ]
    /\ towrite = [ t \in Threads |-> << >> ]
    /\ failed = [ t \in Threads |-> FALSE ]
    /\ loaded = NotLoaded
    /\ ncalls = 0
    /\ docTokens = [ d \in Docs |-> << >> ]
    /\ lastSaved = EmptyIndex
    /\ flushedOk = FALSE

\* threads that call load_index
NextLoad ==
    \/ \E t \in Threads : LoadAcquire(t)
    \/ \E t \in Threads : LoadRead(t)

----------------------------------------------------------------------------
(* SearchManager *)

\* bounds of the blend model
MaxLocalResults == 2
MaxApiResults == 2
MaxBlendArg == 2

\* bounds of the search model
MaxResultsArg == 2
MaxSearches == 2

\* HYBRID_LOCAL_BOOST 1.2 and HYBRID_FRESHNESS_BOOST 1.1, in tenths
LocalBoostTenths == 12
FreshnessBoostTenths == 11
\* getattr(Config, 'DEFAULT_MAX_RESULTS', 10): Config has no such attribute
DefaultMaxResults == 10

\* scores are fractions num/den with den > 0
Frac(n, d) == [ num |-> n, den |-> d ]
FracMul(a, b) == Frac(a.num * b.num, a.den * b.den)
FracLess(a, b) == a.num * b.den < b.num * a.den
FracEq(a, b) == a.num * b.den = b.num * a.den

ResultURLs == { "https://example.com/page1", "https://example.com/page2",
                "https://other.org/", "" }

\* SearchManager._extract_domain: urlparse(url).netloc
ExtractDomain(url) ==
    CASE url = "https://example.com/page1" -> "example.com"
      [] url = "https://example.com/page2" -> "example.com"
      [] url = "https://other.org/"        -> "other.org"
      [] url = "https://third.net/"        -> "third.net"
      [] url = ""                          -> ""

\* a result dict: its url, score, source and blend_position (-1: not set)
Result(u, sc, src, pos) == [ url |-> u, score |-> sc, source |-> src, blend_position |-> pos ]

\* the scores a local ranker gives
LocalScores == { Frac(1, 10), Frac(9, 10) }

\* the results _normalize_local_results and the external clients hand over
LocalInputs == { Result(u, sc, "local", -1) : u \in ResultURLs \ { "" }, sc \in LocalScores }
ApiInputs == { Result(u, Frac(0, 1), "google", -1) : u \in ResultURLs }

\* lines 410-415: the local results with their boosted score and position
RECURSIVE ScoreLocal(_, _)
ScoreLocal(local_results, i) ==
    IF i > Len(local_results) THEN << >>
    ELSE << Result(local_results[i].url,
                   FracMul(local_results[i].score, Frac(LocalBoostTenths, 10)),
                   "local", i - 1) >>
         \o ScoreLocal(local_results, i + 1)

\* mutant of SeenAfterLocal: the domains of the local results are not recorded
SeenAfterLocalNone(local_results, dedup) == {}

\* lines 417-420: the domains seen once the local results are processed
SeenAfterLocal(local_results, dedup) ==
    IF dedup
    THEN { ExtractDomain(local_results[i].url) : i \in DOMAIN local_results } \ { "" }
    ELSE {}

\* mutant of ApiScore: the positions are counted from 1
ApiScoreFromOne(i, n) == FracMul(Frac(n - (i + 1), n), Frac(FreshnessBoostTenths, 10))

\* line 433-434: position_score * freshness_boost of the API result at index i of n
ApiScore(i, n) == FracMul(Frac(n - i, n), Frac(FreshnessBoostTenths, 10))

\* lines 423-439: the API loop from index i (1-based), with the domains seen so far
RECURSIVE ScoreApi(_, _, _, _)
ScoreApi(api_results, i, seen, dedup) ==
    IF i > Len(api_results) THEN << >>
    ELSE LET domain == ExtractDomain(api_results[i].url) IN
         IF dedup /\ domain \in seen
         THEN ScoreApi(api_results, i + 1, seen, dedup)
         ELSE << Result(api_results[i].url, ApiScore(i - 1, Len(api_results)),
                        api_results[i].source, i - 1) >>
              \o ScoreApi(api_results, i + 1,
                          IF dedup /\ domain # "" THEN seen \cup { domain } ELSE seen,
                          dedup)

\* the list with x put behind every element whose score is >= x's
RECURSIVE InsertByScore(_, _)
InsertByScore(sorted, x) ==
    IF sorted = << >> THEN << x >>
    ELSE IF FracLess(Head(sorted).score, x.score)
         THEN << x >> \o sorted
         ELSE << Head(sorted) >> \o InsertByScore(Tail(sorted), x)

\* line 442: scored_results.sort(key=score, reverse=True), a stable sort
RECURSIVE SortByScore(_, _)
SortByScore(unsorted, acc) ==
    IF unsorted = << >> THEN acc
    ELSE SortByScore(Tail(unsorted), InsertByScore(acc, Head(unsorted)))

\* lines 444-453: the guard of max_results
BlendLimit(max_results) == IF max_results <= 0 THEN DefaultMaxResults ELSE max_results

\* s[:m]
Prefix(s, m) == SubSeq(s, 1, IF m < Len(s) THEN m ELSE Len(s))

\* lines 405-442: scored_results after the sort
ScoredResults(local_results, api_results, dedup) ==
    SortByScore(ScoreLocal(local_results, 1)
                \o ScoreApi(api_results, 1, SeenAfterLocal(local_results, dedup), dedup),
                << >>)

\* SearchManager._blend_results
BlendResults(local_results, api_results, max_results, dedup) ==
    Prefix(ScoredResults(local_results, api_results, dedup), BlendLimit(max_results))

InitBlend ==
    /\ blend_local \in SeqsUpTo(LocalInputs, MaxLocalResults)
    /\ blend_api \in SeqsUpTo(ApiInputs, MaxApiResults)
    /\ blend_max \in 0..MaxBlendArg
    /\ deduplicate \in BOOLEAN
    /\ scored_results = << >>
    /\ blended = << >>
    /\ bpc = "ready"

QuietBlend ==
    /\ blend_local = << >>
    /\ blend_api = << >>
    /\ blend_max = 0
    /\ deduplicate = TRUE
    /\ scored_results = << >>
    /\ blended = << >>
    /\ bpc = "unused"

\* one call of _blend_results
Blend ==
    /\ bpc = "ready"
    /\ scored_results' = ScoredResults(blend_local, blend_api, deduplicate)
    /\ blended' = BlendResults(blend_local, blend_api, blend_max, deduplicate)
    /\ bpc' = "done"
    /\ UNCHANGED << blend_local, blend_api, blend_max, deduplicate >>
    /\ UNCHANGED outsideBlend

NextBlend == Blend

Modes == { "local", "serpapi", "google", "hybrid" }

\* the queries searched for: a plain one, one with an unmatched quote
Queries == { "q", "\"q" }
NoFilters == ""
Filters == { NoFilters, "site=a" }
\* the (query, filters) pairs a caller passes to search()
Requests == { << "q", NoFilters >>, << "\"q", "site=a" >> }

\* the text of a query as the sequence of its pieces: a run of word
\* characters (\w+) is one piece, every other character is a piece of its own
QueryText(query) ==
    CASE query = "q" -> << "q" >>
      [] query = "\"q" -> << "\"", "q" >>
      [] OTHER -> << >>

\* the pieces that are no run of word characters
Punctuation == { "\"", ":", " ", "-", "+", "*", "." }

\* QueryParser.supported_filters
supported_filters == { "site", "filetype", "ext", "date", "before", "after", "lang" }

\* query.count('"')
RECURSIVE CountQuotes(_)
CountQuotes(text) ==
    IF text = << >> THEN 0
    ELSE (IF Head(text) = "\"" THEN 1 ELSE 0) + CountQuotes(Tail(text))

\* the group(1) of every match of (\w+):([^\s]+) in the text: a word followed
\* by a colon and at least one character that is no white space
FilterNames(text) ==
    { text[i] : i \in { j \in 1..(Len(text) - 2) :
                          /\ text[j] \notin Punctuation
                          /\ text[j + 1] = ":"
                          /\ text[j + 2] # " " } }

\* QueryParser.validate_query: (is_valid, error_message)
validate_query(query) ==
    LET text == QueryText(query) IN
    IF \A i \in 1..Len(text) : text[i] = " "
    THEN [ is_valid |-> FALSE, error |-> "Query cannot be empty" ]
    ELSE IF CountQuotes(text) % 2 # 0
    THEN [ is_valid |-> FALSE, error |-> "Unmatched quotes in query" ]
    ELSE IF \E name \in FilterNames(text) :
               name \notin { "and", "or", "not" } \cup supported_filters
    THEN [ is_valid |-> FALSE, error |-> "Unknown filter" ]
    ELSE [ is_valid |-> TRUE, error |-> "" ]

\* SearchManager._generate_cache_key: the key string '|'.join(key_parts), of
\* which the key is the MD5 digest; max_results and the mode are no part of it
CacheKey(query, filters) ==
    IF filters = NoFilters THEN query ELSE query \o "|" \o filters

\* what the local index, Google and SerpAPI hold for a query, best first
LocalHits ==
    << Result("https://example.com/page1", Frac(9, 10), "local", -1),
       Result("https://other.org/", Frac(1, 10), "local", -1) >>
GoogleHits ==
    << Result("https://example.com/page2", Frac(0, 1), "google", -1),
       Result("https://third.net/", Frac(0, 1), "google", -1) >>
SerpapiHits ==
    << Result("", Frac(0, 1), "serpapi", -1),
       Result("https://other.org/", Frac(0, 1), "serpapi", -1) >>

\* the outcome of one call of a source: it raises, it finds nothing, or it
\* finds all it holds; a call may also return what it found only after the
\* caller's timeout ("late"), or never return ("never")
Raises == "raises"
Outcomes == { Raises, "nothing", "found" }
TimedOut == { "late", "never" }
Found(hits, outcome) == IF outcome \in { "found", "late" } THEN hits ELSE << >>

Ok(rs) == [ ok |-> TRUE, results |-> rs ]
Raised == [ ok |-> FALSE, results |-> << >> ]

\* Ranker.rank line 159: ranked_docs[:top_k]
RankTopK(hits, top_k) == Prefix(hits, top_k)

\* _search_local: lines 169-188
SearchLocal(max_results, outcome) ==
    IF ~has_local \/ outcome = Raises THEN Raised
    ELSE Ok(RankTopK(Found(LocalHits, outcome), max_results))

\* _search_api: lines 209-231, with SerpAPIClient.search lines 127-128 and 172
SearchApi(max_results, outcome) ==
    IF ~has_serpapi \/ outcome = Raises THEN Raised
    ELSE Ok(Prefix(Found(SerpapiHits, outcome), max_results))

\* _search_google: lines 252-280 (max_results or 10), with
\* GoogleSearchClient.search lines 94-133
SearchGoogle(max_results, outcome) ==
    IF ~has_google \/ outcome = Raises THEN Raised
    ELSE Ok(Prefix(Found(GoogleHits, outcome),
                   IF max_results = 0 THEN DefaultMaxResults ELSE max_results))

\* a response dict: query, results, metadata.source, metadata.mode, metadata.error
Response(q, rs, src, m, err) ==
    [ query |-> q, results |-> rs, source |-> src, mode |-> m, error |-> err ]

\* _empty_results: lines 759-771
EmptyResults(q, err) == Response(q, << >>, "error", "", err)

\* _search_hybrid: lines 304-386. lo, go, so are the outcomes of the three
\* futures, lo2 the outcome of the direct local fallback of lines 356-362
SearchHybrid(q, max_results, lo, go, so, lo2) ==
    LET first == IF has_local THEN SearchLocal(max_results, lo) ELSE Raised
        g == IF has_google THEN SearchGoogle(max_results, go) ELSE Raised
        s == IF has_serpapi THEN SearchApi(max_results, so) ELSE Raised
        all_api_results == g.results \o s.results
        fallback == IF first.results = << >> /\ has_local
                    THEN SearchLocal(max_results, lo2) ELSE Raised
        local_results == IF fallback.ok THEN fallback.results ELSE first.results
    IN Response(q, BlendResults(local_results, all_api_results, max_results, deduplicate),
                "hybrid", "hybrid", "")

\* search lines 101-150 on a cache miss: the routed search, or the empty
\* result when it raised
ExecuteSearch(q, max_results, lo, go, so, lo2) ==
    CASE mode = "local" ->
            LET r == SearchLocal(max_results, lo) IN
            IF r.ok THEN Response(q, r.results, "local", mode, "")
            ELSE EmptyResults(q, "local search failed")
      [] mode = "serpapi" ->
            LET r == SearchApi(max_results, so) IN
            IF r.ok THEN Response(q, r.results, "serpapi", mode, "")
            ELSE EmptyResults(q, "serpapi search failed")
      [] mode = "google" ->
            LET r == SearchGoogle(max_results, go) IN
            IF r.ok THEN Response(q, r.results, "google", mode, "")
            ELSE EmptyResults(q, "google search failed")
      [] mode = "hybrid" -> SearchHybrid(q, max_results, lo, go, so, lo2)

\* the calls search() makes of each source
SourcesCalled(max_results, lo, go, so, lo2) ==
    [ local |-> (IF mode \in { "local", "hybrid" } /\ has_local THEN 1 ELSE 0)
                + (IF mode = "hybrid" /\ has_local
                      /\ SearchLocal(max_results, lo).results = << >> THEN 1 ELSE 0),
      google |-> IF mode \in { "google", "hybrid" } /\ has_google THEN 1 ELSE 0,
      serpapi |-> IF mode \in { "serpapi", "hybrid" } /\ has_serpapi THEN 1 ELSE 0 ]

NoCalls == [ local |-> 0, google |-> 0, serpapi |-> 0 ]

\* the outcomes that matter to the search made: those of the sources the mode
\* calls; the others are fixed
OutcomesUsed(hit, lo, go, so, lo2) ==
    /\ (hit \/ mode \notin { "local", "hybrid" } \/ ~has_local) => lo = Raises
    /\ (hit \/ mode \notin { "google", "hybrid" } \/ ~has_google) => go = Raises
    /\ (hit \/ mode \notin { "serpapi", "hybrid" } \/ ~has_serpapi) => so = Raises
    /\ (hit \/ mode # "hybrid" \/ ~has_local \/ lo = "found") => lo2 = Raises

\* the clients a SearchManager is constructed with
ClientSets ==
    { [ local |-> TRUE, google |-> TRUE, serpapi |-> TRUE ],
      [ local |-> TRUE, google |-> FALSE, serpapi |-> FALSE ],
      [ local |-> FALSE, google |-> TRUE, serpapi |-> TRUE ] }

InitSearch ==
    /\ mode = "hybrid"
    /\ \E cs \in ClientSets :
          /\ has_local = cs.local
          /\ has_google = cs.google
          /\ has_serpapi = cs.serpapi
    /\ has_cache \in BOOLEAN
    /\ cache = << >>
    /\ nsearch = 0
    /\ response = EmptyResults("", "")
    /\ req_max = 0
    /\ called = NoCalls
    /\ was_hit = FALSE
    /\ req_filters = NoFilters
    /\ req_query = ""

QuietSearch ==
    /\ mode = "hybrid"
    /\ has_local = FALSE
    /\ has_google = FALSE
    /\ has_serpapi = FALSE
    /\ has_cache = FALSE
    /\ cache = << >>
    /\ nsearch = 0
    /\ response = EmptyResults("", "")
    /\ req_max = 0
    /\ called = NoCalls
    /\ was_hit = FALSE
    /\ req_filters = NoFilters
    /\ req_query = ""

\* mutant of CacheAfter: the response is not stored
CacheAfterNoStore(key, res) == cache

\* lines 135-138, reached when the routed search did not raise: the cache
\* after the response is stored
CacheAfter(key, res) ==
    IF has_cache /\ res.source # "error" THEN DictPut(cache, key, res) ELSE cache

\* search(query, max_results, filters): lines 85-150
Search ==
    /\ nsearch < MaxSearches
    /\ \E rq \in Requests, mr \in 0..MaxResultsArg,
          lo \in Outcomes, go \in Outcomes, so \in Outcomes, lo2 \in Outcomes :
          LET q == rq[1]
              f == rq[2]
              key == CacheKey(q, f)
              hit == has_cache /\ key \in DOMAIN cache
              res == ExecuteSearch(q, mr, lo, go, so, lo2)
          IN /\ OutcomesUsed(hit, lo, go, so, lo2)
             /\ req_max' = mr
             /\ was_hit' = hit
             /\ req_filters' = f
             /\ req_query' = q
             /\ IF hit
                THEN /\ response' = cache[key]
                     /\ called' = NoCalls
                     /\ UNCHANGED cache
                ELSE /\ response' = res
                     /\ called' = SourcesCalled(mr, lo, go, so, lo2)
                     /\ cache' = CacheAfter(key, res)
    /\ nsearch' = nsearch + 1
    /\ UNCHANGED << mode, has_local, has_google, has_serpapi, has_cache >>
    /\ UNCHANGED outsideSearch

\* set_mode: lines 625-633
SetMode ==
    /\ \E m \in Modes \cup { "invalid" } :
          mode' = IF m \in Modes THEN m ELSE mode
    /\ UNCHANGED << has_local, has_google, has_serpapi, has_cache, cache, nsearch,
                    response, req_max, called, was_hit, req_filters, req_query >>
    /\ UNCHANGED outsideSearch

\* CacheManager.get lines 117-124: an entry whose TTL has passed is dropped
CacheExpire ==
    /\ \E k \in DOMAIN cache :
          cache' = [ x \in (DOMAIN cache) \ { k } |-> cache[x] ]
    /\ UNCHANGED << mode, has_local, has_google, has_serpapi, has_cache, nsearch,
                    response, req_max, called, was_hit, req_filters, req_query >>
    /\ UNCHANGED outsideSearch

NextSearch ==
    \/ Search
    \/ SetMode
    \/ CacheExpire

----------------------------------------------------------------------------
(* SearchManager.search in hybrid mode on a cache miss, step by step *)

\* the outcomes of a call made through the executor, and of a direct call
PoolOutcomes == Outcomes \cup TimedOut
DirectOutcomes == Outcomes \cup { "never" }

\* mutant of FutureResult: the result is awaited without a timeout
FutureResultNoTimeout(outcome, r) == IF r.ok THEN r.results ELSE << >>

\* lines 336-353: future.result(timeout=10) and the except clause; what the
\* collecting loop takes from the future of a call with this outcome
FutureResult(outcome, r) ==
    IF outcome \in TimedOut \/ ~r.ok THEN << >> ELSE r.results

\* lines 317, 323, 329: the source has a client
Configured(src) ==
    CASE src = "local" -> has_local
      [] src = "google" -> has_google
      [] src = "serpapi" -> has_serpapi

NoOutcomes ==
    [ local |-> Raises, google |-> Raises, serpapi |-> Raises, fallback |-> Raises ]

InitHybrid ==
    /\ mode = "hybrid"
    /\ has_local \in BOOLEAN
    /\ has_google \in BOOLEAN
    /\ has_serpapi \in BOOLEAN
    /\ has_cache = FALSE
    /\ cache = << >>
    /\ nsearch = 0
    /\ response = EmptyResults("", "")
    /\ req_max \in 0..MaxResultsArg
    /\ called = NoCalls
    /\ was_hit = FALSE
    /\ req_filters = NoFilters
    /\ req_query = ""
    /\ hpc = "call"
    /\ hy_outcome \in [ local : PoolOutcomes, google : PoolOutcomes,
                        serpapi : PoolOutcomes, fallback : DirectOutcomes ]
    /\ ~has_local => (hy_outcome.local = Raises /\ hy_outcome.fallback = Raises)
    /\ ~has_google => hy_outcome.google = Raises
    /\ ~has_serpapi => hy_outcome.serpapi = Raises
    /\ hy_local = << >>
    /\ hy_api = << >>

QuietHybrid ==
    /\ hpc = "unused"
    /\ hy_outcome = NoOutcomes
    /\ hy_local = << >>
    /\ hy_api = << >>

\* search lines 85-116 and _search_hybrid lines 304-332: the calls are submitted
HybridSubmit ==
    /\ hpc = "call"
    /\ hpc' = "collect"
    /\ called' = [ local |-> IF has_local THEN 1 ELSE 0,
                   google |-> IF has_google THEN 1 ELSE 0,
                   serpapi |-> IF has_serpapi THEN 1 ELSE 0 ]
    /\ UNCHANGED << mode, has_local, has_google, has_serpapi, has_cache, cache, nsearch,
                    response, req_max, was_hit, req_filters, req_query, hy_outcome, hy_local,
                    hy_api >>
    /\ UNCHANGED outsideHybrid

\* lines 335-353: the results of the futures are collected, each within its timeout
HybridCollect ==
    /\ hpc = "collect"
    /\ hpc' = "exit"
    /\ hy_local' = IF has_local
                   THEN FutureResult(hy_outcome.local,
                                     SearchLocal(req_max, hy_outcome.local))
                   ELSE << >>
    /\ hy_api' = (IF has_google
                  THEN FutureResult(hy_outcome.google,
                                    SearchGoogle(req_max, hy_outcome.google))
                  ELSE << >>)
                 \o (IF has_serpapi
                     THEN FutureResult(hy_outcome.serpapi,
                                       SearchApi(req_max, hy_outcome.serpapi))
                     ELSE << >>)
    /\ UNCHANGED << mode, has_local, has_google, has_serpapi, has_cache, cache, nsearch,
                    response, req_max, called, was_hit, req_filters, req_query, hy_outcome >>
    /\ UNCHANGED outsideHybrid

\* the sources whose call in the executor never returns
NeverReturning ==
    { src \in { "local", "google", "serpapi" } :
        Configured(src) /\ hy_outcome[src] = "never" }

\* line 313: the exit of 'with ThreadPoolExecutor(...)' is shutdown(wait=True),
\* which joins every worker thread
HybridExecutorExit ==
    /\ hpc = "exit"
    /\ NeverReturning = {}
    /\ hpc' = "fallback"
    /\ UNCHANGED << mode, has_local, has_google, has_serpapi, has_cache, cache, nsearch,
                    response, req_max, called, was_hit, req_filters, req_query, hy_outcome,
                    hy_local, hy_api >>
    /\ UNCHANGED outsideHybrid

\* lines 356-362: the direct local call when local_results is empty
HybridFallback ==
    /\ hpc = "fallback"
    /\ hpc' = "blend"
    /\ IF hy_local = << >> /\ has_local
       THEN /\ hy_outcome.fallback # "never"
            /\ LET r == SearchLocal(req_max, hy_outcome.fallback) IN
               hy_local' = IF r.ok THEN r.results ELSE hy_local
            /\ called' = [ called EXCEPT !.local = @ + 1 ]
       ELSE UNCHANGED << hy_local, called >>
    /\ UNCHANGED << mode, has_local, has_google, has_serpapi, has_cache, cache, nsearch,
                    response, req_max, was_hit, req_filters, req_query, hy_outcome, hy_api >>
    /\ UNCHANGED outsideHybrid

\* lines 365-386 and search lines 124-145: the blend is returned
HybridReturn ==
    /\ hpc = "blend"
    /\ hpc' = "done"
    /\ response' = Response("q", BlendResults(hy_local, hy_api, req_max, deduplicate),
                            "hybrid", mode, "")
    /\ nsearch' = nsearch + 1
    /\ UNCHANGED << mode, has_local, has_google, has_serpapi, has_cache, cache,
                    req_max, called, was_hit, req_filters, req_query, hy_outcome, hy_local,
                    hy_api >>
    /\ UNCHANGED outsideHybrid

NextHybrid ==
    \/ HybridSubmit
    \/ HybridCollect
    \/ HybridExecutorExit
    \/ HybridFallback
    \/ HybridReturn

----------------------------------------------------------------------------
(* SearchManager.search_with_fallback *)

\* line 670: kwargs.get('max_results', 10)
FallbackMaxResults == 10

\* the values of PRIMARY_SEARCH_ENGINE and FALLBACK_SEARCH_ENGINE
Engines == { "google", "serpapi" }

\* lines 675-678, 686-689: the engine has a client
EngineAvailable(engine) ==
    \/ engine = "google" /\ has_google
    \/ engine = "serpapi" /\ has_serpapi

\* lines 677, 680, 688, 691: self._search_google(query, max_results, filters,
\* **kwargs) or self._search_api(...). With max_results among kwargs the call
\* passes max_results twice and raises TypeError before the method runs
CallEngine(engine, outcome) ==
    IF kw_max THEN Raised
    ELSE IF engine = "google" THEN SearchGoogle(FallbackMaxResults, outcome)
    ELSE SearchApi(FallbackMaxResults, outcome)

\* line 696
AllEnginesFailed == EmptyResults("q", "All search engines failed")

\* lines 681-696: what follows the try block of the primary engine; the
\* fallback engine is tried in the except clause only
TryFallback(first_raised) ==
    IF first_raised /\ EngineAvailable(secondary)
    THEN LET r == CallEngine(secondary, fb_outcome.secondary) IN
         IF r.ok THEN Response("q", r.results, secondary, "", "")
         ELSE AllEnginesFailed
    ELSE AllEnginesFailed

\* search_with_fallback: lines 664-696
SearchWithFallbackResult ==
    IF EngineAvailable(primary)
    THEN LET r == CallEngine(primary, fb_outcome.primary) IN
         IF r.ok THEN Response("q", r.results, primary, "", "")
         ELSE TryFallback(TRUE)
    ELSE TryFallback(FALSE)

\* the calls search_with_fallback makes of each engine
EnginesCalled ==
    LET first == EngineAvailable(primary) /\ ~kw_max
        second == /\ EngineAvailable(primary)
                  /\ ~CallEngine(primary, fb_outcome.primary).ok
                  /\ EngineAvailable(secondary)
                  /\ ~kw_max
        Calls(e) == (IF first /\ primary = e THEN 1 ELSE 0)
                    + (IF second /\ secondary = e THEN 1 ELSE 0)
    IN [ local |-> 0, google |-> Calls("google"), serpapi |-> Calls("serpapi") ]

InitFallback ==
    /\ mode = "hybrid"
    /\ has_local = FALSE
    /\ has_google \in BOOLEAN
    /\ has_serpapi \in BOOLEAN
    /\ has_cache = FALSE
    /\ cache = << >>
    /\ nsearch = 0
    /\ response = EmptyResults("", "")
    /\ req_max = 0
    /\ called = NoCalls
    /\ was_hit = FALSE
    /\ req_filters = NoFilters
    /\ req_query = ""
    /\ primary \in Engines
    /\ secondary \in Engines
    /\ kw_max \in BOOLEAN
    /\ fb_outcome \in [ primary : Outcomes, secondary : Outcomes ]
    /\ fpc = "ready"

QuietFallback ==
    /\ primary = "google"
    /\ secondary = "serpapi"
    /\ kw_max = FALSE
    /\ fb_outcome = [ primary |-> Raises, secondary |-> Raises ]
    /\ fpc = "unused"

\* one call of search_with_fallback
SearchWithFallback ==
    /\ fpc = "ready"
    /\ fpc' = "done"
    /\ response' = SearchWithFallbackResult
    /\ called' = EnginesCalled
    /\ UNCHANGED << mode, has_local, has_google, has_serpapi, has_cache, cache, nsearch,
                    req_max, was_hit, req_filters, req_query, primary, secondary, kw_max,
                    fb_outcome >>
    /\ UNCHANGED outsideFallback

NextFallback == SearchWithFallback

----------------------------------------------------------------------------
(* Ranker: the cache of document lengths *)

RECURSIVE LengthInPostings(_, _)
\* lines 45-46 for one term: the sum of the frequencies of doc_id's postings
LengthInPostings(postings, doc_id) ==
    IF postings = << >> THEN 0
    ELSE (IF Head(postings)[1] = doc_id THEN Head(postings)[2] ELSE 0)
         + LengthInPostings(Tail(postings), doc_id)

RECURSIVE LengthInTerms(_, _, _)
\* lines 44-46: the sum over the terms of the index
LengthInTerms(idx, order, doc_id) ==
    IF order = << >> THEN 0
    ELSE LengthInPostings(PostingsOf(idx, Head(order)), doc_id)
         + LengthInTerms(idx, Tail(order), doc_id)

\* lines 44-46: _doc_lengths computed from the inverted index
DocLengths(idx) ==
    LET present == { d \in Docs : \E term \in DOMAIN idx :
                        \E i \in DOMAIN idx[term] : idx[term][i][1] = d }
    IN [ d \in present |-> LengthInTerms(idx, TermOrder, d) ]

RECURSIVE SumLengths(_, _)
\* sum(self._doc_lengths.values())
SumLengths(lengths, docs) ==
    IF docs = {} THEN 0
    ELSE LET d == CHOOSE x \in docs : TRUE
         IN lengths[d] + SumLengths(lengths, docs \ { d })

\* lines 41-55: the statistics computed from the index; the average length is
\* the fraction sum/total, and 0 for no document
Statistics(idx) ==
    LET lengths == DocLengths(idx)
        total == Cardinality(DOMAIN lengths)
    IN [ doc_lengths |-> lengths,
         total_docs |-> total,
         avg_doc_length |-> IF total > 0
                            THEN Frac(SumLengths(lengths, DOMAIN lengths), total)
                            ELSE Frac(0, 1) ]

\* Ranker.__init__ lines 31-34
EmptyCache ==
    [ valid |-> FALSE,
      stats |-> [ doc_lengths |-> << >>, total_docs |-> 0, avg_doc_length |-> Frac(0, 1) ] ]

\* Ranker._update_cache: lines 38-55
UpdateCache(rcache, idx) ==
    IF rcache.valid THEN rcache
    ELSE [ valid |-> TRUE, stats |-> Statistics(idx) ]

\* Ranker.__init__ line 17: k1 = 1.5 and b = 0.75
DefaultK1 == Frac(3, 2)
DefaultB == Frac(3, 4)

RECURSIVE Gcd(_, _)
Gcd(a, b) == IF b = 0 THEN a ELSE Gcd(b, a % b)

\* the fraction n/d in lowest terms, for n >= 0 and d > 0
Reduced(n, d) == LET g == Gcd(n, d) IN Frac(n \div g, d \div g)

FracAdd(a, b) == Reduced(a.num * b.den + b.num * a.den, a.den * b.den)

RECURSIVE FracGreater(_, _)
\* a > b for fractions that are not negative, compared by their continued
\* fractions so that no product is formed
FracGreater(a, b) ==
    LET qa == a.num \div a.den
        qb == b.num \div b.den
        ra == a.num % a.den
        rb == b.num % b.den
    IN IF qa # qb THEN qa > qb
       ELSE IF ra = 0 THEN FALSE
       ELSE IF rb = 0 THEN TRUE
       ELSE FracGreater(Frac(b.den, rb), Frac(a.den, ra))

\* math.log((N - df + 0.5) / (df + 0.5) + 1) of line 76 in thousandths, for the
\* document counts and document frequencies of the model; the argument is
\* (N + 1) / (df + 0.5), and the logarithm is negative when it is below 1
LogMilli(total_docs, df) ==
    CASE total_docs = 0 /\ df = 0 -> 693
      [] total_docs = 1 /\ df = 0 -> 1386
      [] total_docs = 1 /\ df = 1 -> 288
      [] total_docs = 2 /\ df = 0 -> 1792
      [] total_docs = 2 /\ df = 1 -> 693
      [] total_docs = 2 /\ df = 2 -> 182
      [] total_docs = 3 /\ df = 0 -> 2079
      [] total_docs = 3 /\ df = 1 -> 981
      [] total_docs = 3 /\ df = 2 -> 470
      [] total_docs = 3 /\ df = 3 -> 134
      [] OTHER -> -1

\* line 79: max(0, idf), in thousandths
Idf(total_docs, df) == IF LogMilli(total_docs, df) > 0 THEN LogMilli(total_docs, df) ELSE 0

\* Ranker._calculate_idf lines 70-79
CalculateIdf(stats, idx, term) == Idf(stats.total_docs, Len(PostingsOf(idx, term)))

\* mutant of Saturation: the term frequency is squared in the denominator
SaturationSquared(tf, doc_length, avg, k1, b) ==
    LET S == avg.num
        N == avg.den
        norm == (b.den - b.num) * S + b.num * doc_length * N
    IN Frac(tf * (k1.num + k1.den) * b.den * S,
            tf * tf * k1.den * b.den * S + k1.num * norm)

\* lines 108-118 written as one fraction: with k1 = kn/kd, b = bn/bd and the
\* average length S/N,
\*   length_norm = ((bd - bn) * S + bn * doc_length * N) / (bd * S)
\*   numerator / denominator
\*     = tf * (kn + kd) * bd * S / (tf * kd * bd * S + kn * ((bd - bn) * S + bn * doc_length * N))
Saturation(tf, doc_length, avg, k1, b) ==
    LET S == avg.num
        N == avg.den
        norm == (b.den - b.num) * S + b.num * doc_length * N
    IN Frac(tf * (k1.num + k1.den) * b.den * S,
            tf * k1.den * b.den * S + k1.num * norm)

\* Ranker._calculate_bm25_score lines 94-120, in thousandths: 0.0 when the
\* average length is 0, else idf * (numerator / denominator)
CalculateBm25Score(stats, idf, doc_id, tf, k1, b) ==
    LET doc_length == IF doc_id \in DOMAIN stats.doc_lengths
                      THEN stats.doc_lengths[doc_id] ELSE 0
    IN IF stats.avg_doc_length.num = 0 THEN Frac(0, 1)
       ELSE LET sat == Saturation(tf, doc_length, stats.avg_doc_length, k1, b)
            IN Reduced(idf * sat.num, sat.den)

\* doc_scores[doc_id] += bm25_score on the defaultdict(float) of line 143,
\* whose items are kept in the order of their first insertion
AddScore(doc_scores, doc_id, score) ==
    IF \E i \in DOMAIN doc_scores : doc_scores[i].doc_id = doc_id
    THEN [ i \in DOMAIN doc_scores |->
              IF doc_scores[i].doc_id = doc_id
              THEN [ doc_id |-> doc_id, score |-> FracAdd(doc_scores[i].score, score) ]
              ELSE doc_scores[i] ]
    ELSE Append(doc_scores, [ doc_id |-> doc_id, score |-> score ])

RECURSIVE ScorePostings(_, _, _, _, _, _)
\* lines 149-151: the postings of one query term
ScorePostings(doc_scores, postings, stats, idf, k1, b) ==
    IF postings = << >> THEN doc_scores
    ELSE ScorePostings(
            AddScore(doc_scores, Head(postings)[1],
                     CalculateBm25Score(stats, idf, Head(postings)[1], Head(postings)[2],
                                        k1, b)),
            Tail(postings), stats, idf, k1, b)

RECURSIVE ScoreTerms(_, _, _, _, _, _)
\* lines 145-151: the loop over the query's tokens
ScoreTerms(doc_scores, query_tokens, idx, stats, k1, b) ==
    IF query_tokens = << >> THEN doc_scores
    ELSE ScoreTerms(
            ScorePostings(doc_scores, PostingsOf(idx, Head(query_tokens)), stats,
                          CalculateIdf(stats, idx, Head(query_tokens)), k1, b),
            Tail(query_tokens), idx, stats, k1, b)

RECURSIVE InsertDescending(_, _)
\* the place of item in a list sorted by descending score: after the items
\* whose score is not smaller, as the stable sort of line 154 leaves it
InsertDescending(sorted, item) ==
    IF sorted = << >> THEN << item >>
    ELSE IF FracGreater(item.score, Head(sorted).score)
         THEN << item >> \o sorted
         ELSE << Head(sorted) >> \o InsertDescending(Tail(sorted), item)

RECURSIVE SortedDescending(_, _)
\* sorted(doc_scores.items(), key=lambda x: x[1], reverse=True), line 154
SortedDescending(sorted, items) ==
    IF items = << >> THEN sorted
    ELSE SortedDescending(InsertDescending(sorted, Head(items)), Tail(items))

\* mutant of TopK: the whole list is returned
TopKAll(ranked_docs, top_k) == ranked_docs

\* ranked_docs[:top_k], line 157
TopK(ranked_docs, top_k) ==
    SubSeq(ranked_docs, 1, IF top_k < Len(ranked_docs) THEN top_k ELSE Len(ranked_docs))

\* Ranker.rank lines 133-157 on the tokens of the query, with the statistics
\* that _update_cache has left
RankList(idx, stats, query_tokens, top_k, k1, b) ==
    IF query_tokens = << >> THEN << >>
    ELSE IF stats.total_docs = 0 THEN << >>
    ELSE TopK(SortedDescending(<< >>, ScoreTerms(<< >>, query_tokens, idx, stats, k1, b)),
              top_k)

\* bound of the argument top_k
MaxTopK == 2

\* the token lists of the queries
QueryTokenLists == { << >>, << "alpha" >>, << "beta" >>, << "alpha", "beta" >> }

InitRanker ==
    /\ rk_cache = EmptyCache
    /\ rank_called = FALSE
    /\ rank_stats = EmptyCache.stats
    /\ rank_index = EmptyIndex
    /\ rank_query = << >>
    /\ rank_top_k = 0
    /\ rank_result = << >>

QuietRanker == InitRanker

\* Ranker.rank, lines 133-159: a query without a token returns [] at line
\* 137; the scores of another are computed from the statistics left by
\* _update_cache (line 140)
Rank ==
    /\ \E q \in QueryTokenLists, top_k \in 0..MaxTopK :
          /\ rank_query' = q
          /\ rank_top_k' = top_k
          /\ rk_cache' = IF q = << >> THEN rk_cache ELSE UpdateCache(rk_cache, index)
          /\ rank_called' = (rank_called \/ q # << >>)
          /\ rank_stats' = IF q = << >> THEN rank_stats ELSE rk_cache'.stats
          /\ rank_index' = IF q = << >> THEN rank_index ELSE index
          /\ rank_result' = RankList(index, rk_cache'.stats, q, top_k,
                                     DefaultK1, DefaultB)
    /\ UNCHANGED indexVars
    /\ UNCHANGED outsideRanker

\* Ranker.tune_parameters lines 262-269, the one caller of invalidate_cache
\* (lines 231-233)
TuneParameters ==
    /\ rk_cache' = [ rk_cache EXCEPT !.valid = FALSE ]
    /\ UNCHANGED << rank_called, rank_stats, rank_index, rank_query, rank_top_k,
                    rank_result >>
    /\ UNCHANGED indexVars
    /\ UNCHANGED outsideRanker

\* the ranker and a thread that indexes documents
NextRanker ==
    \/ Rank
    \/ TuneParameters
    \/ IndexDocumentCall("t1")
    \/ IndexAcquire("t1")
    \/ IndexMergeTerm("t1")
    \/ IndexRelease("t1")

----------------------------------------------------------------------------
(* Indexer: the background flusher *)

\* the thread start_auto_flush starts
Flusher == "t2"
\* the thread of the application that indexes meanwhile
Writer == "t1"

\* the states of a flusher thread in which it is alive
Alive == { "waiting", "signaled", "woken", "flushing" }

\* a loop without the try of lines 83-87: the exception ends the thread
AfterFlushUncaught(raised) == IF raised THEN "dead" ELSE "waiting"

\* _auto_flush_loop lines 83-87: flush() returned, or raised and the except
\* clause swallowed the exception; the loop goes back to the wait of line 82
AfterFlush(raised) == "waiting"

\* line 72: self._flusher_thread and self._flusher_thread.is_alive()
FlusherIsAlive ==
    IF flusher_thread = NoThread THEN FALSE ELSE flusher[flusher_thread] \in Alive

InitFlusher ==
    /\ flusher = [ t \in Threads |-> "none" ]
    /\ stop_event = FALSE
    /\ flusher_thread = NoThread
    /\ spc = "idle"
    /\ stopped = {}
    /\ af_failed = [ t \in Threads |-> FALSE ]
    /\ af_last = [ t \in Threads |-> "none" ]

QuietAutoFlush == InitFlusher

\* start_auto_flush lines 72-78, called while self._flusher_thread is None or
\* not alive (otherwise the call returns at line 73); the new thread is one of
\* the pool, the first that is not running
StartAutoFlush(pool) ==
    /\ spc = "idle"
    /\ ~FlusherIsAlive
    /\ \E t \in pool :
          /\ flusher[t] \notin Alive
          /\ t = Flusher \/ flusher[Flusher] \in Alive
          /\ flusher' = [ flusher EXCEPT ![t] = "waiting" ]
          /\ flusher_thread' = t
          /\ stopped' = stopped \ { t }
          /\ af_failed' = [ af_failed EXCEPT ![t] = FALSE ]
          /\ af_last' = [ af_last EXCEPT ![t] = "none" ]
    /\ stop_event' = FALSE
    /\ UNCHANGED spc
    /\ UNCHANGED indexVars
    /\ UNCHANGED outsideAutoFlush

\* line 82: self._stop_event.wait(self._flush_interval) times out: a tick
AutoFlushWake(t) ==
    /\ flusher[t] = "waiting"
    /\ ~stop_event
    /\ flusher' = [ flusher EXCEPT ![t] = "woken" ]
    /\ UNCHANGED << stop_event, flusher_thread, spc, stopped, af_failed, af_last >>
    /\ UNCHANGED indexVars
    /\ UNCHANGED outsideAutoFlush

\* line 84: the tick calls flush(), which takes the index lock
AutoFlushBegin(t) ==
    /\ flusher[t] = "woken"
    /\ FlushAcquireStep(t)
    /\ flusher' = [ flusher EXCEPT ![t] = "flushing" ]
    /\ UNCHANGED << stop_event, flusher_thread, spc, stopped, af_failed, af_last >>
    /\ UNCHANGED outsideAutoFlush

\* lines 83-87: flush() has released the index lock and returned or raised
AutoFlushDone(t) ==
    /\ flusher[t] = "flushing"
    /\ FlushReleaseStep(t)
    /\ flusher' = [ flusher EXCEPT ![t] = AfterFlush(failed[t]) ]
    /\ af_failed' = [ af_failed EXCEPT ![t] = @ \/ failed[t] ]
    /\ af_last' = [ af_last EXCEPT ![t] = IF failed[t] THEN "raised" ELSE "ok" ]
    /\ UNCHANGED << stop_event, flusher_thread, spc, stopped >>
    /\ UNCHANGED outsideAutoFlush

\* stop_auto_flush lines 91-93: the event is set, which wakes the threads
\* that are in wait(): their wait() returns True
StopAutoFlush ==
    /\ spc = "idle"
    /\ flusher_thread # NoThread
    /\ stop_event' = TRUE
    /\ flusher' = [ t \in Threads |->
                      IF flusher[t] = "waiting" THEN "signaled" ELSE flusher[t] ]
    /\ spc' = "joining"
    /\ UNCHANGED << flusher_thread, stopped, af_failed, af_last >>
    /\ UNCHANGED indexVars
    /\ UNCHANGED outsideAutoFlush

\* stop_auto_flush lines 94-97: join(timeout) returns, because the thread has
\* ended or because the timeout has elapsed while the thread was in flush()
\* or waited for the index lock; stop_auto_flush forgets the thread and returns
StopAutoFlushReturn ==
    /\ spc = "joining"
    /\ \/ flusher[flusher_thread] \notin Alive
       \/ flusher[flusher_thread] = "flushing"
       \/ flusher[flusher_thread] = "woken" /\ ilock \notin { NoThread, flusher_thread }
    /\ stopped' = stopped \cup { flusher_thread }
    /\ flusher_thread' = NoThread
    /\ spc' = "idle"
    /\ UNCHANGED << flusher, stop_event, af_failed, af_last >>
    /\ UNCHANGED indexVars
    /\ UNCHANGED outsideAutoFlush

\* line 82: wait() returns True, the loop and the thread end
AutoFlushExit(t) ==
    /\ flusher[t] = "signaled" \/ (flusher[t] = "waiting" /\ stop_event)
    /\ flusher' = [ flusher EXCEPT ![t] = "exited" ]
    /\ UNCHANGED << stop_event, flusher_thread, spc, stopped, af_failed, af_last >>
    /\ UNCHANGED indexVars
    /\ UNCHANGED outsideAutoFlush

\* the steps of the flusher thread t
FlusherStep(t) ==
    \/ AutoFlushWake(t)
    \/ AutoFlushBegin(t)
    \/ SaveAcquire(t)
    \/ SaveWrite(t)
    \/ SaveFails(t)
    \/ SaveReplace(t)
    \/ SaveFinally(t)
    \/ AutoFlushDone(t)
    \/ AutoFlushExit(t)

\* one flusher thread at a time, and a thread that indexes
NextAutoFlush ==
    \/ StartAutoFlush({ Flusher })
    \/ AutoFlushWake(Flusher)
    \/ AutoFlushBegin(Flusher)
    \/ SaveAcquire(Flusher)
    \/ SaveWrite(Flusher)
    \/ SaveFails(Flusher)
    \/ SaveReplace(Flusher)
    \/ SaveFinally(Flusher)
    \/ AutoFlushDone(Flusher)
    \/ StopAutoFlush
    \/ StopAutoFlushReturn
    \/ AutoFlushExit(Flusher)
    \/ IndexDocumentCall(Writer)
    \/ IndexAcquire(Writer)
    \/ IndexMergeTerm(Writer)
    \/ IndexRelease(Writer)

\* bound of the calls of index_document made while auto-flush is not stopped
MaxLiveCalls == 1

\* the steps of the thread that indexes
WriterStep ==
    \/ IndexDocumentCall(Writer) /\ ncalls < MaxLiveCalls
    \/ IndexAcquire(Writer)
    \/ IndexMergeTerm(Writer)
    \/ IndexRelease(Writer)

\* the steps of the flusher's loop that need nothing of the storage
TickStep ==
    \/ AutoFlushWake(Flusher)
    \/ AutoFlushBegin(Flusher)
    \/ SaveAcquire(Flusher)
    \/ SaveFinally(Flusher)
    \/ AutoFlushDone(Flusher)

\* json.dump writes the piece before the last k - 1 pieces
SaveWritePiece(k) == SaveWrite(Flusher) /\ Len(towrite[Flusher]) = k

\* the longest text of an index: the braces and one member per term
MaxText == Cardinality(Terms) + 2

\* auto-flush started and not stopped, and a thread that indexes
NextFlushLive ==
    \/ StartAutoFlush({ Flusher })
    \/ AutoFlushWake(Flusher)
    \/ AutoFlushBegin(Flusher)
    \/ SaveAcquire(Flusher)
    \/ SaveWrite(Flusher)
    \/ SaveFails(Flusher)
    \/ SaveReplace(Flusher)
    \/ SaveFinally(Flusher)
    \/ AutoFlushDone(Flusher)
    \/ IndexDocumentCall(Writer) /\ ncalls < MaxLiveCalls
    \/ IndexAcquire(Writer)
    \/ IndexMergeTerm(Writer)
    \/ IndexRelease(Writer)

\* start_auto_flush and stop_auto_flush called again and again: the flusher
\* threads they start, without any other use of the index
NextRestart ==
    \/ StartAutoFlush(Threads)
    \/ StopAutoFlush
    \/ StopAutoFlushReturn
    \/ \E t \in Threads : AutoFlushWake(t)
    \/ \E t \in Threads : AutoFlushBegin(t)
    \/ \E t \in Threads : SaveAcquire(t)
    \/ \E t \in Threads : SaveWrite(t)
    \/ \E t \in Threads : SaveFails(t)
    \/ \E t \in Threads : SaveReplace(t)
    \/ \E t \in Threads : SaveFinally(t)
    \/ \E t \in Threads : AutoFlushDone(t)
    \/ \E t \in Threads : AutoFlushExit(t)

----------------------------------------------------------------------------
(* QueryParser.parse *)

\* a run of word characters
IsWord(piece) == piece \notin Punctuation

\* str.lower() on the words of the model
Lower(word) ==
    CASE word = "NOT" -> "not"
      [] word = "AND" -> "and"
      [] word = "OR" -> "or"
      [] OTHER -> word

RECURSIVE Join(_)
\* the string of a text
Join(text) == IF text = << >> THEN "" ELSE Head(text) \o Join(Tail(text))

RECURSIVE MergeWords(_)
\* what were two runs of word characters is one run once nothing is between them
MergeWords(text) ==
    IF Len(text) < 2 THEN text
    ELSE IF IsWord(text[1]) /\ IsWord(text[2])
         THEN MergeWords(<< text[1] \o text[2] >> \o SubSeq(text, 3, Len(text)))
         ELSE << Head(text) >> \o MergeWords(Tail(text))

RECURSIVE RemoveAll(_, _)
RemoveAll(text, sub) ==
    IF Len(text) < Len(sub) THEN text
    ELSE IF SubSeq(text, 1, Len(sub)) = sub
         THEN RemoveAll(SubSeq(text, Len(sub) + 1, Len(text)), sub)
         ELSE << Head(text) >> \o RemoveAll(Tail(text), sub)

\* query.replace(sub, ''): every occurrence of sub is removed, left to right
Replace(text, sub) == MergeWords(RemoveAll(text, sub))

RECURSIVE StripLeft(_)
StripLeft(text) ==
    IF text # << >> /\ Head(text) = " " THEN StripLeft(Tail(text)) ELSE text

RECURSIVE StripRight(_)
StripRight(text) ==
    IF text # << >> /\ text[Len(text)] = " "
    THEN StripRight(SubSeq(text, 1, Len(text) - 1)) ELSE text

\* str.strip()
Strip(text) == StripRight(StripLeft(text))

RECURSIVE RunEnd(_, _, _)
\* the last position of the run of pieces outside the set stop that starts at i
RunEnd(text, i, stop) ==
    IF i + 1 <= Len(text) /\ text[i + 1] \notin stop
    THEN RunEnd(text, i + 1, stop) ELSE i

RECURSIVE SpacesEnd(_, _)
\* the last position of the run of spaces that starts at i
SpacesEnd(text, i) ==
    IF i + 1 <= Len(text) /\ text[i + 1] = " " THEN SpacesEnd(text, i + 1) ELSE i

\* the position of the word that follows one or more spaces after position
\* i, 0 when there is none (\s+(\w+))
WordAfterSpaces(text, i) ==
    IF i + 1 <= Len(text) /\ text[i + 1] = " "
    THEN LET k == SpacesEnd(text, i + 1) + 1
         IN IF k <= Len(text) /\ IsWord(text[k]) THEN k ELSE 0
    ELSE 0

\* the first position after i that holds the piece, 0 when there is none
NextPiece(text, i, piece) ==
    IF \E j \in (i + 1)..Len(text) : text[j] = piece
    THEN CHOOSE j \in (i + 1)..Len(text) :
            text[j] = piece /\ \A k \in (i + 1)..(j - 1) : text[k] # piece
    ELSE 0

\* the last word of the run of words and stars that starts at i
LastWordOfRun(text, i) ==
    LET r == RunEnd(text, i, Punctuation \ { "*" })
    IN CHOOSE j \in i..r : IsWord(text[j]) /\ \A k \in (j + 1)..r : ~IsWord(text[k])

\* where the match of a pattern that starts at position i ends, 0 when the
\* pattern does not match there:
\*   filter    (\w+):([^\s]+)                              line 136
\*   phrase    "([^"]+)"                                   line 164
\*   wildcard  \b[\w*]+\*[\w*]*\b|\b\*[\w*]+\b             line 189: from a word
\*             to the last word of the run of words and stars, over a star
\*   not       NOT\s+(\w+), and, or  (\w+)\s+AND\s+(\w+)   lines 217, 224, 231
\*   plus      \+(\w+), minus  -(\w+)                      lines 238, 245
MatchEnd(kind, text, i) ==
    CASE kind = "filter" ->
            IF /\ IsWord(text[i])
               /\ i + 2 <= Len(text)
               /\ text[i + 1] = ":"
               /\ text[i + 2] # " "
            THEN RunEnd(text, i + 2, { " " }) ELSE 0
      [] kind = "phrase" ->
            IF text[i] = "\"" /\ i + 1 <= Len(text) /\ text[i + 1] # "\""
            THEN NextPiece(text, i + 1, "\"") ELSE 0
      [] kind = "wildcard" ->
            IF IsWord(text[i]) /\ LastWordOfRun(text, i) > i
            THEN LastWordOfRun(text, i) ELSE 0
      [] kind = "not" ->
            IF Lower(text[i]) = "not" THEN WordAfterSpaces(text, i) ELSE 0
      [] kind \in { "and", "or" } ->
            IF IsWord(text[i]) /\ WordAfterSpaces(text, i) # 0
               /\ Lower(text[WordAfterSpaces(text, i)]) = kind
            THEN WordAfterSpaces(text, WordAfterSpaces(text, i)) ELSE 0
      [] kind = "plus" ->
            IF text[i] = "+" /\ i + 1 <= Len(text) /\ IsWord(text[i + 1])
            THEN i + 1 ELSE 0
      [] kind = "minus" ->
            IF text[i] = "-" /\ i + 1 <= Len(text) /\ IsWord(text[i + 1])
            THEN i + 1 ELSE 0

\* a match object: the text from position i to position e, its first and
\* last piece, and what its groups hold
Match(text, i, e) ==
    [ group0 |-> SubSeq(text, i, e),
      first |-> text[i],
      last |-> text[e],
      value |-> SubSeq(text, i + 2, e),
      inner |-> SubSeq(text, i + 1, e - 1) ]

RECURSIVE FindIter(_, _, _)
RECURSIVE FindFrom(_, _, _, _)
\* the search goes on after a match that ends at e, or at the next position
\* when nothing matches at i
FindFrom(kind, text, i, e) ==
    IF e = 0 THEN FindIter(kind, text, i + 1)
    ELSE << Match(text, i, e) >> \o FindIter(kind, text, e + 1)

\* re.finditer: the matches of the pattern from position i on, left to right
\* and without overlap, each as the text it matched and the place of its word
FindIter(kind, text, i) ==
    IF i > Len(text) THEN << >>
    ELSE FindFrom(kind, text, i, MatchEnd(kind, text, i))

RECURSIVE FiltersLoop(_, _, _)
\* _extract_filters lines 139-147
FiltersLoop(matches, query, filters) ==
    IF matches = << >> THEN [ query |-> query, filters |-> filters ]
    ELSE LET match == Head(matches)
             filter_name == Lower(match.first)
         IN IF filter_name \in supported_filters
            THEN FiltersLoop(Tail(matches), Replace(query, match.group0),
                             DictPut(filters, filter_name, Join(match.value)))
            ELSE FiltersLoop(Tail(matches), query, filters)

\* return query.strip(), ... (lines 149, 174, 198)
StripQuery(r) == [ r EXCEPT !.query = Strip(r.query) ]

\* QueryParser._extract_filters: (cleaned_query, filters)
ExtractFilters(query) ==
    StripQuery(FiltersLoop(FindIter("filter", query, 1), query, << >>))

RECURSIVE PhrasesLoop(_, _, _)
\* _extract_phrases lines 167-172
PhrasesLoop(matches, query, phrases) ==
    IF matches = << >> THEN [ query |-> query, phrases |-> phrases ]
    ELSE LET match == Head(matches)
             phrase == Strip(match.inner)
         IN IF phrase # << >>
            THEN PhrasesLoop(Tail(matches), Replace(query, match.group0),
                             Append(phrases, Join(phrase)))
            ELSE PhrasesLoop(Tail(matches), query, phrases)

\* QueryParser._extract_phrases: (cleaned_query, phrases)
ExtractPhrases(query) ==
    StripQuery(PhrasesLoop(FindIter("phrase", query, 1), query, << >>))

RECURSIVE WildcardsLoop(_, _, _)
\* _extract_wildcards lines 192-196
WildcardsLoop(matches, query, wildcards) ==
    IF matches = << >> THEN [ query |-> query, wildcards |-> wildcards ]
    ELSE WildcardsLoop(Tail(matches), Replace(query, Head(matches).group0),
                       Append(wildcards, Join(Head(matches).group0)))

\* QueryParser._extract_wildcards: (cleaned_query, wildcards)
ExtractWildcards(query) ==
    StripQuery(WildcardsLoop(FindIter("wildcard", query, 1), query, << >>))

RECURSIVE OperatorLoop(_, _, _, _)
\* one loop of _parse_boolean: every match is removed from the query, and its
\* last word, after its first word when the operator has two, is added
OperatorLoop(matches, query, found, both) ==
    IF matches = << >> THEN [ query |-> query, found |-> found ]
    ELSE LET match == Head(matches) IN
         OperatorLoop(Tail(matches), Replace(query, match.group0),
                      found \o (IF both THEN << Lower(match.first) >> ELSE << >>)
                            \o << Lower(match.last) >>,
                      both)

\* what _parse_boolean holds before its first loop, lines 210-212
BooleanStart(query) ==
    [ query |-> query, must_have |-> << >>, must_not_have |-> << >>,
      should_have |-> << >> ]

\* what _parse_boolean holds after a loop that left r
AfterLoop(held, list, r) == [ held EXCEPT !.query = r.query, ![list] = r.found ]

\* one of the five loops of _parse_boolean, lines 218-250: the matches of the
\* operator in the query as it is now go to the list of the operator
BooleanLoop(kind, list, both, held) ==
    AfterLoop(held, list,
              OperatorLoop(FindIter(kind, held.query, 1), held.query, held[list], both))

\* line 252
BooleanReturn(held) ==
    [ must_have |-> held.must_have,
      must_not_have |-> held.must_not_have,
      should_have |-> held.should_have,
      remaining |-> Strip(held.query) ]

\* QueryParser._parse_boolean lines 211-252:
\* (must_have, must_not_have, should_have, remaining)
ParseBoolean(query) ==
    BooleanReturn(
        BooleanLoop("minus", "must_not_have", FALSE,
        BooleanLoop("plus", "must_have", FALSE,
        BooleanLoop("or", "should_have", TRUE,
        BooleanLoop("and", "must_have", TRUE,
        BooleanLoop("not", "must_not_have", FALSE, BooleanStart(query)))))))

RECURSIVE TokenizeTerms(_)
\* QueryParser._tokenize_terms without a tokenizer, lines 268-276: the words
\* of more than one character, in lower case
TokenizeTerms(text) ==
    IF text = << >> THEN << >>
    ELSE (IF IsWord(Head(text)) /\ Len(Head(text)) > 1
          THEN << Lower(Head(text)) >> ELSE << >>) \o TokenizeTerms(Tail(text))

\* Tokenizer.DEFAULT_STOP_WORDS, the ones that are words of the model
StopWords == { "and", "a" }

RECURSIVE Tokenize(_)
\* Tokenizer.tokenize lines 124-144 on the words of the model, which the
\* Porter stemmer leaves as they are: lower case, no stop word, two
\* characters at least
Tokenize(text) ==
    IF text = << >> THEN << >>
    ELSE (IF /\ IsWord(Head(text))
             /\ Lower(Head(text)) \notin StopWords
             /\ Len(Head(text)) >= 2
          THEN << Lower(Head(text)) >> ELSE << >>) \o Tokenize(Tail(text))

\* parse() of a QueryParser that has a tokenizer (line 268)
StageOrderTokenizer == << "filters", "phrases", "wildcards", "boolean", "tokens" >>

\* mutant of StageOrder: the operators are parsed before the phrases
StageOrderBooleanFirst == << "filters", "boolean", "phrases", "wildcards", "terms" >>

\* the order in which parse() applies its stages, lines 87-99
StageOrder == << "filters", "phrases", "wildcards", "boolean", "terms" >>

\* what parse() holds before its first stage
ParseStart(query) ==
    [ query |-> query, terms |-> << >>, phrases |-> << >>, must_have |-> << >>,
      must_not_have |-> << >>, should_have |-> << >>, wildcards |-> << >>,
      filters |-> << >> ]

\* one stage of parse() on what it holds
\* query, <list> = self._extract_...(query) (lines 87, 90, 93)
Extracted(st, list, r) == [ st EXCEPT !.query = r.query, ![list] = r[list] ]

\* must_have, must_not_have, should_have, remaining = ... (line 96)
Operators(st, r) ==
    [ st EXCEPT !.query = r.remaining, !.must_have = r.must_have,
                !.must_not_have = r.must_not_have,
                !.should_have = r.should_have ]

ApplyStage(stage, st) ==
    CASE stage = "filters" -> Extracted(st, "filters", ExtractFilters(st.query))
      [] stage = "phrases" -> Extracted(st, "phrases", ExtractPhrases(st.query))
      [] stage = "wildcards" -> Extracted(st, "wildcards", ExtractWildcards(st.query))
      [] stage = "boolean" -> Operators(st, ParseBoolean(st.query))
      [] stage = "terms" ->
            [ st EXCEPT !.terms = TokenizeTerms(st.query) ]
      [] stage = "tokens" ->
            [ st EXCEPT !.terms = Tokenize(st.query) ]

RECURSIVE ApplyStages(_, _)
ApplyStages(stages, st) ==
    IF stages = << >> THEN st
    ELSE ApplyStages(Tail(stages), ApplyStage(Head(stages), st))

\* the ParsedQuery of lines 102-121
ParsedQuery(query, st) ==
    [ original |-> Join(query),
      terms |-> st.terms,
      phrases |-> st.phrases,
      must_have |-> st.must_have,
      must_not_have |-> st.must_not_have,
      should_have |-> st.should_have,
      wildcards |-> st.wildcards,
      filters |-> st.filters,
      is_simple |-> /\ st.phrases = << >>
                    /\ st.wildcards = << >>
                    /\ st.filters = << >>
                    /\ st.must_have = << >>
                    /\ st.must_not_have = << >>
                    /\ st.should_have = << >> ]

\* QueryParser.parse lines 84-121
ParseWith(stages, query) == ParsedQuery(query, ApplyStages(stages, ParseStart(query)))

\* parse() of a QueryParser without a tokenizer
Parse(query) == ParseWith(StageOrder, query)

\* the parts the queries are made of
QuickFox == << "\"", "quick", " ", "fox", "\"" >>
SiteExample == << "site", ":", "example", ".", "com" >>
MinusCat == << "-", "cat" >>
QuotedFilter == << "\"" >> \o SiteExample \o << " ", "fox", "\"" >>
QuotedMinus == << "\"", "quick", " " >> \o MinusCat \o << "\"" >>
QueryParts ==
    { QuickFox, SiteExample, MinusCat, QuotedFilter, QuotedMinus,
      << "dog" >>, << "+", "dog" >>, << "NOT", " ", "cat" >>,
      << "dog", " ", "AND", " ", "cat" >>, << "dog", " ", "OR", " ", "cat" >>,
      << "py", "*", "thon" >>, << "foo", ":", "bar" >>, << "q" >> }

\* bound of the number of parts of a query
MaxParts == 3

RECURSIVE JoinParts(_)
\* the parts with a space between them
JoinParts(parts) ==
    IF parts = << >> THEN << >>
    ELSE IF Len(parts) = 1 THEN Head(parts)
    ELSE Head(parts) \o << " " >> \o JoinParts(Tail(parts))

\* the queries parsed
ParsedQueries == { JoinParts(parts) : parts \in SeqsUpTo(QueryParts, MaxParts) }

\* "quick fox" site:example.com -cat
ExampleQuery == JoinParts(<< QuickFox, SiteExample, MinusCat >>)

InitParse ==
    /\ parse_query \in ParsedQueries
    /\ parsed = ParseStart(<< >>)
    /\ qpc = "ready"

QuietParse ==
    /\ parse_query = << >>
    /\ parsed = ParseStart(<< >>)
    /\ qpc = "unused"

\* one call of parse()
ParseCall ==
    /\ qpc = "ready"
    /\ parsed' = Parse(parse_query)
    /\ qpc' = "done"
    /\ UNCHANGED parse_query
    /\ UNCHANGED outsideParse

NextParse == ParseCall

----------------------------------------------------------------------------
(* AdvancedRanker *)

\* the result of an expression that may raise
Raising(e) == [ raised |-> e, value |-> << >> ]
Returning(v) == [ raised |-> "none", value |-> v ]

\* self.indexer.index[term].keys() (lines 120, 132): the postings of a term
\* are a list (indexer.py line 53), and a list has no keys()
PostingsKeys(postings) == Raising("AttributeError")

\* doc_id in self.indexer.index[term] (lines 189, 197): the members of the
\* list are the pairs [doc_id, freq], and a string equals none of them
DocInPostings(doc_id, postings) ==
    \E i \in DOMAIN postings : postings[i] = doc_id

\* the words of the phrases, as the tokenizer gives them (line 125)
PhraseTerms(phrase) == << phrase >>

\* lines 108-136: the candidate documents of a parsed query; an Indexer has
\* no attribute inverted_index (line 127)
GetCandidateDocuments(idx, pq) ==
    LET all_terms == pq.terms \o pq.must_have \o pq.should_have IN
    IF \E i \in DOMAIN all_terms : all_terms[i] \in DOMAIN idx
    THEN PostingsKeys(idx[all_terms[CHOOSE i \in DOMAIN all_terms :
                                       all_terms[i] \in DOMAIN idx]])
    ELSE IF pq.phrases # << >> THEN Raising("AttributeError")
    ELSE IF \E i \in DOMAIN pq.must_not_have : pq.must_not_have[i] \in DOMAIN idx
    THEN PostingsKeys(idx[pq.must_not_have[CHOOSE i \in DOMAIN pq.must_not_have :
                                              pq.must_not_have[i] \in DOMAIN idx]])
    ELSE Returning({})

\* lines 184-191
DocumentContainsAll(idx, doc_id, terms) ==
    \A i \in DOMAIN terms :
        terms[i] \in DOMAIN idx /\ DocInPostings(doc_id, idx[terms[i]])

\* lines 193-199
DocumentContainsAny(idx, doc_id, terms) ==
    \E i \in DOMAIN terms :
        terms[i] \in DOMAIN idx /\ DocInPostings(doc_id, idx[terms[i]])

\* a score times a factor given in halves (the 1.5 of line 149)
TimesHalves(score, halves) == Reduced(score.num * halves, score.den * 2)

RECURSIVE SumScores(_, _, _, _, _)
\* the scores of the terms for the document, each with the frequency 1 that
\* lines 147 and 156 pass, times the factor in halves
SumScores(idx, stats, doc_id, terms, halves) ==
    IF terms = << >> THEN Frac(0, 1)
    ELSE FracAdd(TimesHalves(CalculateBm25Score(stats,
                                 CalculateIdf(stats, idx, Head(terms)),
                                 doc_id, 1, DefaultK1, DefaultB), halves),
                 SumScores(idx, stats, doc_id, Tail(terms), halves))

\* _score_document lines 138-158, for a query without phrases, OR terms and
\* wildcards: 0 for a document that lacks a required term or holds an
\* excluded one, else 1.5 times the scores of the required terms plus the
\* scores of the plain terms
ScoreDocument(idx, stats, doc_id, pq) ==
    IF pq.must_have # << >> /\ ~DocumentContainsAll(idx, doc_id, pq.must_have)
    THEN Frac(0, 1)
    ELSE IF pq.must_not_have # << >> /\ DocumentContainsAny(idx, doc_id, pq.must_not_have)
    THEN Frac(0, 1)
    ELSE FracAdd(SumScores(idx, stats, doc_id, pq.must_have, 3),
                 SumScores(idx, stats, doc_id, pq.terms, 2))

\* the order in which the candidates are scored
DocOrder == << "doc1", "doc2" >>

\* lines 93-94: a document is kept with a score above 0
ScoredAbove0(doc_id, score) ==
    IF score.num > 0 THEN << [ doc_id |-> doc_id, score |-> score ] >> ELSE << >>

RECURSIVE ScoredCandidates(_, _, _, _, _)
\* lines 86-92: the candidates with a score above 0
ScoredCandidates(idx, stats, pq, candidates, order) ==
    IF order = << >> THEN << >>
    ELSE (IF Head(order) \in candidates
          THEN ScoredAbove0(Head(order), ScoreDocument(idx, stats, Head(order), pq))
          ELSE << >>) \o ScoredCandidates(idx, stats, pq, candidates, Tail(order))

\* lines 84-106, once the candidates are known or the search for them raised
RankCandidates(idx, stats, pq, top_k, candidates) ==
    IF candidates.raised # "none" THEN candidates
    ELSE IF candidates.value = {} THEN Returning(<< >>)
    ELSE Returning(TopK(SortedDescending(<< >>,
                        ScoredCandidates(idx, stats, pq, candidates.value, DocOrder)),
                    top_k))

\* AdvancedRanker._rank_advanced lines 80-104
RankAdvanced(idx, stats, pq, top_k) ==
    RankCandidates(idx, stats, pq, top_k, GetCandidateDocuments(idx, pq))

\* lines 59-64 with top_k = 10: a simple query goes to Ranker.rank
RankParsed(idx, stats, query, pq) ==
    IF pq.is_simple
    THEN Returning(RankList(idx, stats, Tokenize(query), 10, DefaultK1, DefaultB))
    ELSE RankAdvanced(idx, stats, pq, 10)

\* AdvancedRanker.rank lines 52-63; the parser has the tokenizer of the
\* indexer (line 35)
AdvancedRankResult(idx, stats, query) ==
    RankParsed(idx, stats, query, ParseWith(StageOrderTokenizer, query))

\* the queries given to the advanced ranker
AdvancedQueries ==
    { << "alpha" >>,
      << "+", "alpha" >>,
      << "-", "beta" >>,
      << "alpha", " ", "-", "beta" >>,
      << "+", "alpha", " ", "-", "beta" >>,
      << "+", "alpha", " ", "+", "beta" >>,
      << "+", "gamma" >>,
      << "gamma", " ", "-", "delta" >> }

InitAdvanced ==
    /\ adv_query = << >>
    /\ adv_parsed = ParsedQuery(<< >>, ParseStart(<< >>))
    /\ adv_index = EmptyIndex
    /\ adv_result = Returning(<< >>)
    /\ apc = "ready"

QuietAdvanced ==
    /\ adv_query = << >>
    /\ adv_parsed = ParsedQuery(<< >>, ParseStart(<< >>))
    /\ adv_index = EmptyIndex
    /\ adv_result = Returning(<< >>)
    /\ apc = "unused"

\* one call of AdvancedRanker.rank, while no thread is in index_document
AdvancedRank ==
    /\ apc # "unused"
    /\ \A t \in Threads : ipc[t] = "idle"
    /\ \E q \in AdvancedQueries :
          /\ adv_query' = q
          /\ adv_parsed' = ParseWith(StageOrderTokenizer, q)
          /\ rk_cache' = IF adv_parsed'.is_simple THEN UpdateCache(rk_cache, index)
                         ELSE rk_cache
          /\ adv_result' = AdvancedRankResult(index, rk_cache'.stats, q)
    /\ adv_index' = index
    /\ apc' = "done"
    /\ UNCHANGED << rank_called, rank_stats, rank_index, rank_query, rank_top_k,
                    rank_result >>
    /\ UNCHANGED indexVars
    /\ UNCHANGED outsideAdvanced

\* the advanced ranker and a thread that indexes documents
NextAdvanced ==
    \/ AdvancedRank
    \/ IndexDocumentCall("t1")
    \/ IndexAcquire("t1")
    \/ IndexMergeTerm("t1")
    \/ IndexRelease("t1")

----------------------------------------------------------------------------
(* Ranker._calculate_bm25_score as a function of the term frequency *)

\* bounds of the term frequency and of the document length
MaxTf == 3
MaxDocLength == 3

\* the values of k1 (0 to 3, line 262) and of b (0 to 1, line 264)
K1Values == { Frac(0, 1), Frac(1, 2), Frac(3, 2), Frac(3, 1) }
BValues == { Frac(0, 1), Frac(3, 4), Frac(1, 1) }

\* the average document lengths; 0 is that of the empty cache
AvgLengths == { Frac(0, 1), Frac(1, 1), Frac(3, 2), Frac(3, 1) }

\* the document counts and document frequencies
Corpora == { << n, df >> : n \in 1..3, df \in 0..3 } \ { << 1, 2 >>, << 1, 3 >>, << 2, 3 >> }

InitBm25 ==
    /\ bm_args \in [ tf1 : 1..MaxTf, tf2 : 1..MaxTf, doc_length : 0..MaxDocLength,
                     avg : AvgLengths, corpus : Corpora, k1 : K1Values, b : BValues ]
    /\ bm_args.tf1 <= bm_args.tf2
    /\ bm_scores = << Frac(0, 1), Frac(0, 1) >>
    /\ bmpc = "ready"

QuietBm25 ==
    /\ bm_args = [ tf1 |-> 1, tf2 |-> 1, doc_length |-> 0, avg |-> Frac(0, 1),
                   corpus |-> << 1, 0 >>, k1 |-> DefaultK1, b |-> DefaultB ]
    /\ bm_scores = << Frac(0, 1), Frac(0, 1) >>
    /\ bmpc = "unused"

\* the statistics of a cache with the document
StatsWith(args) ==
    [ doc_lengths |-> [ d \in { "doc1" } |-> args.doc_length ],
      total_docs |-> args.corpus[1],
      avg_doc_length |-> args.avg ]

\* _calculate_bm25_score for the two term frequencies, all else the same
Bm25Scores ==
    /\ bmpc = "ready"
    /\ bm_scores' =
          << CalculateBm25Score(StatsWith(bm_args), Idf(bm_args.corpus[1], bm_args.corpus[2]),
                                "doc1", bm_args.tf1, bm_args.k1, bm_args.b),
             CalculateBm25Score(StatsWith(bm_args), Idf(bm_args.corpus[1], bm_args.corpus[2]),
                                "doc1", bm_args.tf2, bm_args.k1, bm_args.b) >>
    /\ bmpc' = "done"
    /\ UNCHANGED bm_args
    /\ UNCHANGED outsideBm25

NextBm25 == Bm25Scores

----------------------------------------------------------------------------
(* crawl() called by two threads on one Spider *)

\* the threads that call crawl() on the Spider (the request threads of
\* app.py line 702 share one Spider)
Callers == { "c1", "c2" }

\* bound of the number of seeds of one call
MaxCallSeeds == 1

\* the seeds of the calls
CallSeedLists == SeqsUpTo({ "http://a/p", "http://b/" }, MaxCallSeeds) \ { << >> }

\* the calls are made with max_depth = 1 and the default max_total_pages of
\* 10000 (line 64), which the crawls of the model do not reach
CallMaxDepth == 1

NoCallResult == [ crawled |-> -1, errors |-> -1 ]

\* a future of one call and its task
CallTask(u, d) == [ url |-> u, depth |-> d, status |-> "queued", links |-> << >> ]

\* s without its i-th element
RemoveAt(s, i) == SubSeq(s, 1, i - 1) \o SubSeq(s, i + 1, Len(s))

RECURSIVE LinkLoop(_, _, _, _)
\* lines 120-132: the links that are not in visited_urls are added to it and
\* submitted; held is the visited set and the future_tasks so far
LinkLoop(links, nd, visited, futures) ==
    IF links = << >> THEN [ visited |-> visited, futures |-> futures ]
    ELSE IF Head(links) \in visited
         THEN LinkLoop(Tail(links), nd, visited, futures)
         ELSE LinkLoop(Tail(links), nd, visited \cup { Head(links) },
                       Append(futures, CallTask(Head(links), nd)))

\* the Spider's fields, which every call reads and writes (lines 26-29)
InitCalls ==
    /\ call_pc = [ c \in Callers |-> "idle" ]
    /\ call_seeds = [ c \in Callers |-> << >> ]
    /\ call_futures = [ c \in Callers |-> << >> ]
    /\ call_own = [ c \in Callers |-> [ crawled |-> 0, errors |-> 0 ] ]
    /\ call_result = [ c \in Callers |-> NoCallResult ]

QuietCalls ==
    /\ call_pc = [ c \in Callers |-> "unused" ]
    /\ call_seeds = [ c \in Callers |-> << >> ]
    /\ call_futures = [ c \in Callers |-> << >> ]
    /\ call_own = [ c \in Callers |-> [ crawled |-> 0, errors |-> 0 ] ]
    /\ call_result = [ c \in Callers |-> NoCallResult ]

\* what a step of a call leaves alone in the Spider
CallFrame ==
    /\ UNCHANGED << urls, max_depth, max_total_pages, max_workers, web, tasks,
                    future_tasks, cpc, seed_i, new_links, next_depth, cur_task,
                    crawl_result, indexCalls, visitedAdds >>
    /\ UNCHANGED outsideCalls

\* crawl() lines 74-85: the job state of the Spider is reset
CallCrawl(c) ==
    /\ call_pc[c] = "idle"
    /\ visited_urls' = {}
    /\ crawled_count' = 0
    /\ error_count' = 0
    /\ \E seeds \in CallSeedLists : call_seeds' = [ call_seeds EXCEPT ![c] = seeds ]
    /\ call_pc' = [ call_pc EXCEPT ![c] = "seeds" ]
    /\ UNCHANGED << call_futures, call_own, call_result >>
    /\ CallFrame

\* lines 94-98: a seed is submitted
CallSubmitSeed(c) ==
    /\ call_pc[c] = "seeds"
    /\ call_seeds[c] # << >>
    /\ call_futures' = [ call_futures EXCEPT
                            ![c] = Append(@, CallTask(Head(call_seeds[c]), 0)) ]
    /\ call_seeds' = [ call_seeds EXCEPT ![c] = Tail(@) ]
    /\ UNCHANGED << visited_urls, crawled_count, error_count, call_pc, call_own,
                    call_result >>
    /\ CallFrame

\* line 94: the seed loop ends
CallSeedsDone(c) ==
    /\ call_pc[c] = "seeds"
    /\ call_seeds[c] = << >>
    /\ call_pc' = [ call_pc EXCEPT ![c] = "wait" ]
    /\ UNCHANGED << visited_urls, crawled_count, error_count, call_seeds,
                    call_futures, call_own, call_result >>
    /\ CallFrame

\* _crawl_and_extract lines 156-192 in a worker of the call: the page is
\* fetched and indexed, counted under the lock, and its links are returned
CallFetchOk(c, i) ==
    /\ i \in DOMAIN call_futures[c]
    /\ call_futures[c][i].status = "queued"
    /\ crawled_count' = crawled_count + 1
    /\ call_own' = [ call_own EXCEPT ![c].crawled = @ + 1 ]
    /\ call_futures' =
          [ call_futures EXCEPT
               ![c][i].status = "done",
               ![c][i].links = ExtractLinks(call_futures[c][i].url,
                                            web[call_futures[c][i].url]) ]
    /\ UNCHANGED << visited_urls, error_count, call_pc, call_seeds, call_result >>
    /\ CallFrame

\* lines 194-204: the fetch raises, and the error is counted under the lock
CallFetchFails(c, i) ==
    /\ i \in DOMAIN call_futures[c]
    /\ call_futures[c][i].status = "queued"
    /\ error_count' = CountError(error_count)
    /\ call_own' = [ call_own EXCEPT ![c].errors = @ + 1 ]
    /\ call_futures' = [ call_futures EXCEPT ![c][i].status = "done" ]
    /\ UNCHANGED << visited_urls, crawled_count, call_pc, call_seeds, call_result >>
    /\ CallFrame

\* what lines 101-132 leave in visited_urls and future_tasks once the future
\* of the task is popped
AfterFuture(task, visited, futures) ==
    IF task.links # << >> /\ task.depth + 1 <= CallMaxDepth
    THEN LinkLoop(task.links, task.depth + 1, visited, futures)
    ELSE [ visited |-> visited, futures |-> futures ]

\* lines 101-132: a completed future is popped and its new links are submitted
CallTakeCompleted(c, i) ==
    /\ call_pc[c] = "wait"
    /\ i \in DOMAIN call_futures[c]
    /\ call_futures[c][i].status = "done"
    /\ visited_urls' =
          AfterFuture(call_futures[c][i], visited_urls,
                      RemoveAt(call_futures[c], i)).visited
    /\ call_futures' =
          [ call_futures EXCEPT
               ![c] = AfterFuture(call_futures[c][i], visited_urls,
                                  RemoveAt(call_futures[c], i)).futures ]
    /\ UNCHANGED << crawled_count, error_count, call_pc, call_seeds, call_own,
                    call_result >>
    /\ CallFrame

\* lines 101 and 138-145: no future is left, crawl() returns the counters
CallReturn(c) ==
    /\ call_pc[c] = "wait"
    /\ call_futures[c] = << >>
    /\ call_result' = [ call_result EXCEPT
                           ![c] = [ crawled |-> crawled_count, errors |-> error_count ] ]
    /\ call_pc' = [ call_pc EXCEPT ![c] = "returned" ]
    /\ UNCHANGED << visited_urls, crawled_count, error_count, call_seeds,
                    call_futures, call_own >>
    /\ CallFrame

NextCalls ==
    \E c \in Callers :
        \/ CallCrawl(c)
        \/ CallSubmitSeed(c)
        \/ CallSeedsDone(c)
        \/ \E i \in DOMAIN call_futures[c] : CallFetchOk(c, i)
        \/ \E i \in DOMAIN call_futures[c] : CallFetchFails(c, i)
        \/ \E i \in DOMAIN call_futures[c] : CallTakeCompleted(c, i)
        \/ CallReturn(c)

----------------------------------------------------------------------------
(* A new Indexer and Ranker over the index file of the first *)

\* Indexer.__init__ line 24 for an Indexer given the database of the file:
\* self.index = defaultdict(list)
IndexerInit(file) == EmptyIndex

InitPersist ==
    /\ new_index = EmptyIndex
    /\ new_saved = EmptyIndex
    /\ new_query = << >>
    /\ new_rank = << >>
    /\ ppc = "none"

QuietPersist == InitPersist

QuietOthers == QuietPersist /\ QuietParse /\ QuietAdvanced /\ QuietBm25 /\ QuietCalls

\* Indexer(tokenizer, Database(filename)) in the thread that indexed and flushed
NewIndexer ==
    /\ ppc = "none"
    /\ \A t \in Threads : ipc[t] = "idle"
    /\ new_index' = IndexerInit(files[IndexFile])
    /\ new_saved' = LoadIndex(files[IndexFile])
    /\ ppc' = "made"
    /\ UNCHANGED << new_query, new_rank >>
    /\ UNCHANGED indexVars
    /\ UNCHANGED outsidePersist

\* Ranker(new_indexer).rank(query, top_k=10): the new Ranker's cache is not
\* valid, so rank() computes the statistics of the new Indexer's index
RankNew ==
    /\ ppc = "made"
    /\ \E q \in QueryTokenLists :
          /\ new_query' = q
          /\ new_rank' = RankList(new_index, Statistics(new_index), q, 10,
                                  DefaultK1, DefaultB)
    /\ ppc' = "ranked"
    /\ UNCHANGED << new_index, new_saved >>
    /\ UNCHANGED indexVars
    /\ UNCHANGED outsidePersist

\* documents are indexed and flushed by one thread, then the new instances
\* are made and asked
NextPersist ==
    \/ IndexDocumentCall("t1")
    \/ IndexAcquire("t1")
    \/ IndexMergeTerm("t1")
    \/ IndexRelease("t1")
    \/ FlushAcquire("t1")
    \/ SaveAcquire("t1")
    \/ SaveWrite("t1")
    \/ SaveFails("t1")
    \/ SaveReplace("t1")
    \/ SaveFinally("t1")
    \/ FlushRelease("t1")
    \/ NewIndexer
    \/ RankNew

----------------------------------------------------------------------------
(* Specifications *)

\* an Indexer and a Database that are never called
QuietIndexer == InitIndexer

\* the crawler
Init == InitSpider /\ QuietIndexer /\ QuietBlend /\ QuietSearch /\ QuietHybrid
    /\ QuietFallback /\ QuietRanker /\ QuietAutoFlush /\ QuietOthers
Next == NextSpider
Spec == Init /\ [][Next]_vars

\* the crawl whose threads all keep running: the main thread of crawl() and
\* the workers of its pool take their next step, and every fetch returns or
\* raises (requests' timeout=15, line 158)
CrawlStep ==
    \/ SeedCheck
    \/ SubmitSeed
    \/ SeedsDone
    \/ \E t \in DOMAIN tasks : StartTask(t)
    \/ \E t \in DOMAIN tasks : FetchFails(t)
    \/ \E t \in DOMAIN tasks : FetchNonHtml(t)
    \/ \E t \in DOMAIN tasks : FetchAndIndex(t)
    \/ \E t \in DOMAIN tasks : CountAndExtract(t)
    \/ \E t \in DOMAIN tasks : StoreFails(t)
    \/ TakeCompleted
    \/ ScheduleLink
    \/ SubmitLink
    \/ CrawlReturn
SpecCrawlFair == Init /\ [][Next]_vars /\ WF_vars(CrawlStep)

\* the index and its storage
InitIndex == QuietSpider /\ InitIndexer /\ QuietBlend /\ QuietSearch /\ QuietHybrid
    /\ QuietFallback /\ QuietRanker /\ QuietAutoFlush /\ QuietOthers
SpecIndex == InitIndex /\ [][NextIndexer]_vars

\* one call of _blend_results
InitBlendOnly == QuietSpider /\ QuietIndexer /\ InitBlend /\ QuietSearch /\ QuietHybrid
    /\ QuietFallback /\ QuietRanker /\ QuietAutoFlush /\ QuietOthers
SpecBlend == InitBlendOnly /\ [][NextBlend]_vars

\* the search manager
InitSearchOnly == QuietSpider /\ QuietIndexer /\ QuietBlend /\ InitSearch /\ QuietHybrid
    /\ QuietFallback /\ QuietRanker /\ QuietAutoFlush /\ QuietOthers
SpecSearch == InitSearchOnly /\ [][NextSearch]_vars

\* one hybrid search, step by step
InitHybridOnly ==
    QuietSpider /\ QuietIndexer /\ QuietBlend /\ InitHybrid /\ QuietFallback
    /\ QuietRanker /\ QuietAutoFlush /\ QuietOthers
SpecHybrid == InitHybridOnly /\ [][NextHybrid]_vars

\* one call of search_with_fallback
InitFallbackOnly ==
    QuietSpider /\ QuietIndexer /\ QuietBlend /\ QuietHybrid /\ InitFallback
    /\ QuietRanker /\ QuietAutoFlush /\ QuietOthers
SpecFallback == InitFallbackOnly /\ [][NextFallback]_vars

\* a Ranker over an Indexer that documents are indexed into
InitRank ==
    QuietSpider /\ InitIndexer /\ QuietBlend /\ QuietSearch /\ QuietHybrid
    /\ QuietFallback /\ InitRanker /\ QuietAutoFlush /\ QuietOthers
SpecRank == InitRank /\ [][NextRanker]_vars

\* an Indexer whose background flusher runs while documents are indexed
InitAutoFlush ==
    QuietSpider /\ InitIndexer /\ QuietBlend /\ QuietSearch /\ QuietHybrid
    /\ QuietFallback /\ QuietRanker /\ InitFlusher /\ QuietOthers
SpecAutoFlush == InitAutoFlush /\ [][NextAutoFlush]_vars

\* the BM25 score of one term in one document
InitBm25Only ==
    QuietSpider /\ QuietIndexer /\ QuietBlend /\ QuietSearch /\ QuietHybrid
    /\ QuietFallback /\ QuietRanker /\ QuietAutoFlush /\ QuietPersist /\ QuietParse
    /\ QuietAdvanced /\ InitBm25 /\ QuietCalls
SpecBm25 == InitBm25Only /\ [][NextBm25]_vars

\* an AdvancedRanker over an Indexer that documents are indexed into
InitAdvancedOnly ==
    QuietSpider /\ InitIndexer /\ QuietBlend /\ QuietSearch /\ QuietHybrid
    /\ QuietFallback /\ InitRanker /\ QuietAutoFlush /\ QuietPersist /\ QuietParse
    /\ InitAdvanced /\ QuietBm25 /\ QuietCalls
SpecAdvanced == InitAdvancedOnly /\ [][NextAdvanced]_vars

\* one call of parse()
InitParseOnly ==
    QuietSpider /\ QuietIndexer /\ QuietBlend /\ QuietSearch /\ QuietHybrid
    /\ QuietFallback /\ QuietRanker /\ QuietAutoFlush /\ QuietPersist /\ InitParse
    /\ QuietAdvanced /\ QuietBm25 /\ QuietCalls
SpecParse == InitParseOnly /\ [][NextParse]_vars

\* load_index on a file found in any state
InitLoadOnly ==
    QuietSpider /\ InitLoad /\ QuietBlend /\ QuietSearch /\ QuietHybrid
    /\ QuietFallback /\ QuietRanker /\ QuietAutoFlush /\ QuietOthers
SpecLoad == InitLoadOnly /\ [][NextLoad]_vars

\* documents indexed and flushed, then a new Indexer and Ranker over the file
InitPersistOnly ==
    QuietSpider /\ InitIndexer /\ QuietBlend /\ QuietSearch /\ QuietHybrid
    /\ QuietFallback /\ QuietRanker /\ QuietAutoFlush /\ InitPersist /\ QuietParse
    /\ QuietAdvanced /\ QuietBm25 /\ QuietCalls
SpecPersist == InitPersistOnly /\ [][NextPersist]_vars

\* two threads that call crawl() on one Spider, each once
InitCallsOnly ==
    QuietSpider /\ QuietIndexer /\ QuietBlend /\ QuietSearch /\ QuietHybrid
    /\ QuietFallback /\ QuietRanker /\ QuietAutoFlush /\ QuietPersist /\ QuietParse
    /\ QuietAdvanced /\ QuietBm25 /\ InitCalls
SpecCalls == InitCallsOnly /\ [][NextCalls]_vars

\* auto-flush that is not stopped: the threads keep running and the timer
\* ticks (the wait of line 82 times out), and a storage operation that is
\* tried again and again does not fail every time
SpecFlushLive ==
    /\ InitAutoFlush
    /\ [][NextFlushLive]_vars
    /\ WF_vars(WriterStep)
    /\ WF_vars(TickStep)
    /\ \A k \in 1..MaxText : SF_vars(SaveWritePiece(k))
    /\ SF_vars(SaveReplace(Flusher))

\* an Indexer whose background flusher is started and stopped again and
\* again; every thread that can take a step takes one, and the timer ticks
SpecRestart ==
    InitAutoFlush /\ [][NextRestart]_vars /\ \A t \in Threads : WF_vars(FlusherStep(t))

----------------------------------------------------------------------------
(* Properties of the crawler, checked under Spec *)

Range(s) == { s[i] : i \in DOMAIN s }

RECURSIVE TrueDepth(_)
\* the depth of a task by its discovery: 0 for a seed, one more than the page
\* on which the link was found otherwise
TrueDepth(t) == IF tasks[t].parent = 0 THEN 0 ELSE 1 + TrueDepth(tasks[t].parent)

\* C1: within one crawl() no URL is fetched and indexed twice: index_document
\* is called at most once per URL, seeds and discovered links alike.
NoUrlIndexedTwice == \A u \in URLs : indexCalls[u] <= 1

\* C2: the number of documents a crawl() has indexed (crawled_count, and the
\* count it returns) never exceeds max_total_pages.
CrawledWithinBudget ==
    /\ crawled_count <= max_total_pages
    /\ cpc = "returned" => crawl_result.crawled <= max_total_pages

SubmittedOnlyVisited ==
    /\ \A t \in DOMAIN tasks : tasks[t].visitedAtSubmit
    /\ \A u \in URLs : visitedAdds[u] <= 1

\* the tasks whose fetch or processing raised
FailedTasks == { t \in DOMAIN tasks : tasks[t].failed }

\* C18: every fetch or processing failure adds exactly one to error_count;
\* none ends crawl(), which returns its statistics with every failure in
\* them; and every task submitted is awaited until it has run, whatever
\* failed before, so a failure takes no scheduled URL out of the crawl.
FailuresCountedAndContained ==
    /\ cpc # "unused" => error_count = Cardinality(FailedTasks)
    /\ \A t \in DOMAIN tasks :
          tasks[t].status # "popped" => (t \in future_tasks /\ cpc # "returned")
    /\ cpc = "returned" => crawl_result.errors = Cardinality(FailedTasks)

\* C18 witness: crawl() returned after one URL failed and another URL, which
\* was scheduled before that failure, was fetched, indexed and counted
CrawlSurvivedFailure ==
    /\ cpc = "returned"
    /\ crawl_result.errors = 1
    /\ \E t1, t2 \in DOMAIN tasks :
          /\ t1 < t2
          /\ tasks[t1].failed
          /\ tasks[t2].counted
          /\ tasks[t2].parent # t1
          /\ indexCalls[tasks[t2].url] > 0

\* a crawl() that was called returns
CrawlReturns == (cpc = "seeds") ~> (cpc = "returned")

\* crawl() has returned only if every task it submitted has run and was taken
ReturnsWhenNothingPending ==
    cpc = "returned" =>
        /\ future_tasks = {}
        /\ \A t \in DOMAIN tasks : tasks[t].status = "popped"

\* no task is submitted while crawled_count has reached max_total_pages
NoSubmissionOverBudget ==
    [][ (cpc \in { "seeds", "seed_submit", "wait", "links", "submit" }
            /\ crawled_count >= max_total_pages)
        => Len(tasks') <= Len(tasks) ]_vars

\* C19: with every fetch returning or failing and a finite link graph,
\* crawl() eventually returns; it returns only when no fetch task is pending;
\* and once the page budget is exhausted no new task is scheduled.
CrawlTerminatesWithinBudget ==
    /\ CrawlReturns
    /\ []ReturnsWhenNothingPending
    /\ NoSubmissionOverBudget

----------------------------------------------------------------------------
(* Properties of the index and its storage, checked under SpecIndex *)

RECURSIVE CountInCalls(_, _)
\* occurrences of the term in the token lists of a sequence of calls
CountInCalls(term, calls) ==
    IF calls = << >> THEN 0
    ELSE CountIn(term, Head(calls)) + CountInCalls(term, Tail(calls))

\* what the call that holds the index lock has merged so far for (term, doc_id)
MergedSoFar(term, doc_id) ==
    IF /\ ilock # NoThread
       /\ ipc[ilock] = "idx_merge"
       /\ idoc[ilock] = doc_id
       /\ term \notin Range(remaining[ilock])
    THEN CountIn(term, itokens[ilock])
    ELSE 0

\* C3: the frequency stored for a (term, document) pair is the sum, over the
\* index_document calls made for the document, of the occurrences of the term
\* in the call's tokens (the call in progress counted for the terms it has
\* merged); no update is lost.
FrequencyIsSumOfCalls ==
    \A term \in Terms, d \in Docs :
        StoredFreq(index, term, d) = CountInCalls(term, docTokens[d]) + MergedSoFar(term, d)

\* C3 witness: two calls for the same document that share a term have completed.
TwoCallsMerged ==
    /\ \A t \in Threads : ipc[t] = "idle"
    /\ \E d \in Docs, term \in Terms :
          /\ Len(docTokens[d]) = 2
          /\ CountIn(term, docTokens[d][1]) > 0
          /\ CountIn(term, docTokens[d][2]) > 0

\* C4: each term's postings list holds at most one posting per document.
OnePostingPerDocument ==
    \A term \in DOMAIN index :
        \A i, j \in DOMAIN index[term] :
            index[term][i][1] = index[term][j][1] => i = j

\* C4 witness: a document is indexed again with a term it already has.
DocumentIndexedAgain ==
    \E d \in Docs, term \in DOMAIN index :
        /\ docTokens[d] # << >>
        /\ CountIn(term, docTokens[d][1]) > 0
        /\ ilock # NoThread
        /\ ipc[ilock] = "idx_merge"
        /\ MergedSoFar(term, d) > 0

\* C7: when flush() has saved, load_index() on the same storage returns
\* exactly the postings the in-memory index held at the flush.
FlushLoadRoundTrip ==
    \A t \in Threads :
        (ipc[t] = "flush_exit" /\ ~failed[t]) =>
            /\ LoadIndex(files[IndexFile]) = serializable[t]
            /\ serializable[t] = index

\* C7 witness: a flush has saved an index that holds two terms, two
\* documents and a merged frequency.
FlushedMergedIndex ==
    \E t \in Threads :
        /\ ipc[t] = "flush_exit"
        /\ ~failed[t]
        /\ DOMAIN index = Terms
        /\ \E term \in Terms : Len(index[term]) = 2
        /\ \E term \in Terms, d \in Docs : StoredFreq(index, term, d) >= 2

\* C8: at every instant the index file is absent or holds one complete
\* snapshot passed to save_index, the one of the last save that replaced it.
IndexFileNeverPartial ==
    \/ ~files[IndexFile].exists
    \/ files[IndexFile].text = Serialize(lastSaved)

\* C8 witness: a save of a new snapshot failed midway, its temp file holds a
\* proper prefix of the text, and the index file holds the previous snapshot.
SaveFailedMidway ==
    \E t \in Threads :
        /\ ipc[t] = "save_finally"
        /\ failed[t]
        /\ towrite[t] # << >>
        /\ files[MkstempPath(t)].exists
        /\ Len(files[MkstempPath(t)].text) >= 2
        /\ files[IndexFile].exists
        /\ serializable[t] # lastSaved

----------------------------------------------------------------------------
(* Properties of the background flusher, checked under SpecAutoFlush *)

\* C20: a flush of the auto-flush timer that fails does not end the flusher
\* thread: the thread is never dead, after a failed flush the timer ticks
\* again, the tick calls flush() again as soon as the index lock is free, and
\* a flush that succeeds leaves the index as it is then in the index file.
FlusherSurvivesFailure ==
    /\ flusher[Flusher] # "dead"
    /\ (af_last[Flusher] = "raised" /\ flusher[Flusher] = "waiting" /\ ~stop_event)
          => ENABLED AutoFlushWake(Flusher)
    /\ (flusher[Flusher] = "woken" /\ ilock = NoThread)
          => ENABLED AutoFlushBegin(Flusher)
    /\ (flusher[Flusher] = "flushing" /\ ipc[Flusher] = "flush_exit" /\ ~failed[Flusher])
          => (files[IndexFile].exists /\ LoadIndex(files[IndexFile]) = index)

\* C20 witness: a flush of the timer has failed, and a later flush of the
\* same thread has saved the index, which holds documents
FlushedAfterFailedTick ==
    /\ af_failed[Flusher]
    /\ flusher[Flusher] = "flushing"
    /\ ipc[Flusher] = "flush_exit"
    /\ ~failed[Flusher]
    /\ index # EmptyIndex
    /\ LoadIndex(files[IndexFile]) = index

\* no thread that a returned stop_auto_flush has stopped ticks again
NoTickAfterStop ==
    [][ \A t \in stopped :
          ~(flusher[t] = "waiting" /\ flusher'[t] = "woken") ]_vars

\* every thread that a returned stop_auto_flush has stopped ends
StoppedThreadEnds ==
    \A t \in Threads : (t \in stopped) ~> (flusher[t] \notin Alive)

\* C21: after stop_auto_flush() has returned the timer it stopped starts no
\* further flush and its thread eventually ends, whether the thread was
\* waiting for its tick or in a flush that outlasted the join.
StoppedTimerEnds == NoTickAfterStop /\ StoppedThreadEnds

----------------------------------------------------------------------------
(* Properties of the blend, checked under SpecBlend *)

\* the non-empty domains of a list of results
DomainsOf(rs) == { ExtractDomain(rs[i].url) : i \in DOMAIN rs } \ { "" }

\* the positions of a list whose result has the domain d
EntriesOf(rs, d) == { i \in DOMAIN rs : ExtractDomain(rs[i].url) = d }

\* the domains a local and an external result of the call share
SharedDomains == DomainsOf(blend_local) \cap DomainsOf(blend_api)

\* the blended score of the local result at position i
BoostedScore(i) == FracMul(blend_local[i].score, Frac(LocalBoostTenths, 10))

\* C6 as stated: with deduplication enabled, a domain that a local and an
\* external result share has exactly one entry in the blended list, and that
\* entry has the higher blended score of the two (stated for the calls in which
\* one local result has the domain and max_results truncates nothing)
HigherScoredEntryKept ==
    (bpc = "done" /\ deduplicate
        /\ Len(blend_local) + Len(blend_api) <= BlendLimit(blend_max)) =>
        \A d \in SharedDomains :
            Cardinality(EntriesOf(blend_local, d)) = 1 =>
                /\ Cardinality(EntriesOf(blended, d)) = 1
                /\ \A e \in EntriesOf(blended, d) :
                      /\ \A i \in EntriesOf(blend_local, d) :
                            ~FracLess(blended[e].score, BoostedScore(i))
                      /\ \A j \in EntriesOf(blend_api, d) :
                            ~FracLess(blended[e].score, ApiScore(j - 1, Len(blend_api)))

\* C6 amended: with deduplication enabled, of a domain that a local and an
\* external result share the external results are dropped and the local ones
\* kept whatever the scores: before truncation the entries of the domain are
\* exactly the local results of that domain (one entry when one local result
\* has it), and the returned list holds no external entry of the domain
LocalEntryKept ==
    (bpc = "done" /\ deduplicate) =>
        \A d \in SharedDomains :
            /\ \A e \in EntriesOf(scored_results, d) : scored_results[e].source = "local"
            /\ Cardinality(EntriesOf(scored_results, d))
                  = Cardinality(EntriesOf(blend_local, d))
            /\ \A e \in EntriesOf(blended, d) : blended[e].source = "local"

\* a call in which the dropped external result outscores the local result
\* that is returned for the shared domain
OutscoredLocalReturned ==
    /\ bpc = "done"
    /\ deduplicate
    /\ \E d \in SharedDomains :
          \E i \in EntriesOf(blend_local, d), j \in EntriesOf(blend_api, d) :
             /\ FracLess(BoostedScore(i), ApiScore(j - 1, Len(blend_api)))
             /\ \E e \in EntriesOf(blended, d) :
                   /\ blended[e].source = "local"
                   /\ blended[e].url = blend_local[i].url

\* C22: with deduplication enabled no two entries of the blended list have
\* the same (non-empty) domain, whichever sources the two came from
NoTwoEntriesShareDomain ==
    (bpc = "done" /\ deduplicate) =>
        \A i, j \in DOMAIN blended :
            (/\ ExtractDomain(blended[i].url) = ExtractDomain(blended[j].url)
             /\ ExtractDomain(blended[i].url) # "") => i = j

----------------------------------------------------------------------------
(* Properties of the search manager, checked under SpecSearch *)

\* C5: the results list a search() returns has at most max_results entries,
\* in every mode and after every sequence of searches, cached answers included
ResultsWithinMaxResults ==
    nsearch > 0 => Len(response.results) <= req_max

\* lines 103-116: the sources a mode routes the search to
RoutedTo(m) ==
    CASE m = "local" -> { "local" }
      [] m = "serpapi" -> { "serpapi" }
      [] m = "google" -> { "google" }
      [] m = "hybrid" -> { "local", "google", "serpapi" }

SyntaxErrorReportedBeforeSearch ==
    (nsearch > 0 /\ ~validate_query(req_query).is_valid)
        => (called = NoCalls /\ response.source = "error")

----------------------------------------------------------------------------
(* Properties of the hybrid search, checked under SpecHybrid *)

\* the call of the source through the executor failed: it raised or timed out
PoolFailed(src) == hy_outcome[src] \in { Raises } \cup TimedOut

\* what the call of the source through the executor returned when it succeeded
PoolResults(src) ==
    CASE PoolFailed(src) -> << >>
      [] src = "local" /\ has_local -> SearchLocal(req_max, hy_outcome.local).results
      [] src = "google" /\ has_google -> SearchGoogle(req_max, hy_outcome.google).results
      [] src = "serpapi" /\ has_serpapi -> SearchApi(req_max, hy_outcome.serpapi).results
      [] OTHER -> << >>

\* the entries of the returned list that carry the tag of the source
EntriesFrom(src) == { i \in DOMAIN response.results : response.results[i].source = src }

LocalContribution ==
    IF PoolResults("local") # << >> \/ ~has_local THEN PoolResults("local")
    ELSE SearchLocal(req_max, hy_outcome.fallback).results

AllFailedCarriesErrorMarker ==
    (hpc = "done"
        /\ PoolFailed("google")
        /\ PoolFailed("serpapi")
        /\ PoolFailed("local")
        /\ hy_outcome.fallback = Raises) =>
        /\ response.results = << >>
        /\ response.source = "error"
        /\ response.error # ""

\* C15: once every source has answered or exceeded its timeout (the collecting
\* loop is over), the hybrid search goes on to return: it does not wait for a
\* source whose call has not returned
HungSourceNotWaitedFor ==
    hpc = "exit" => ENABLED HybridExecutorExit

----------------------------------------------------------------------------
(* Properties of search_with_fallback, checked under SpecFallback *)

\* the engine has a client whose search succeeds
PrimaryWorks == EngineAvailable(primary) /\ fb_outcome.primary # Raises
SecondaryWorks == EngineAvailable(secondary) /\ fb_outcome.secondary # Raises

\* what the client of the engine returns for this outcome
EngineResults(engine, outcome) ==
    IF engine = "google" THEN SearchGoogle(FallbackMaxResults, outcome).results
    ELSE SearchApi(FallbackMaxResults, outcome).results

\* C14: search_with_fallback returns the primary engine's results when the
\* primary succeeds; when the primary fails in any way (it raises or is not
\* available) and the fallback engine is available and succeeds, it returns the
\* fallback engine's results; it returns the 'All search engines failed' result
\* only when both have failed (stated for the calls without a max_results
\* keyword argument)
FallbackPolicy ==
    (fpc = "done" /\ ~kw_max) =>
        /\ PrimaryWorks =>
              /\ response.source = primary
              /\ response.results = EngineResults(primary, fb_outcome.primary)
        /\ (~PrimaryWorks /\ SecondaryWorks) =>
              /\ response.source = secondary
              /\ response.results = EngineResults(secondary, fb_outcome.secondary)
        /\ response = AllEnginesFailed => (~PrimaryWorks /\ ~SecondaryWorks)

----------------------------------------------------------------------------
(* Properties of the ranker's cache, checked under SpecRank *)

\* C16: every rank() call scores with the document lengths, the average
\* length and the document count of the index as it is at that call
RankUsesCurrentStatistics ==
    rank_called => rank_stats = Statistics(rank_index)

----------------------------------------------------------------------------
(* Properties of auto-flush that is not stopped, checked under SpecFlushLive *)

\* the document has a posting in the index
HasDocument(idx, d) ==
    \E term \in DOMAIN idx : FirstPosting(idx[term], d) # 0

\* the flusher's loop is running
AutoFlushRunning == flusher[Flusher] \in Alive

----------------------------------------------------------------------------
(* Properties of the advanced ranker, checked under SpecAdvanced *)

\* the document has a posting of the term in the index
Holds(idx, d, term) == FirstPosting(PostingsOf(idx, term), d) # 0

HoldsAll(idx, d, terms) == \A i \in DOMAIN terms : Holds(idx, d, terms[i])
HoldsAny(idx, d, terms) == \E i \in DOMAIN terms : Holds(idx, d, terms[i])

\* the call returned a list in which the document has a score above 0
ReturnedWithScore(d) ==
    /\ adv_result.raised = "none"
    /\ \E i \in DOMAIN adv_result.value :
          adv_result.value[i].doc_id = d /\ adv_result.value[i].score.num > 0

\* the call returned a list with the document
Returned(d) ==
    /\ adv_result.raised = "none"
    /\ \E i \in DOMAIN adv_result.value : adv_result.value[i].doc_id = d

\* C27: for a query that is not simple and has must-have terms, every document
\* that holds all must-have terms and no must-not-have term is returned with
\* a score above 0, and no document that lacks a must-have term is returned
MustHaveDecides ==
    (apc = "done" /\ ~adv_parsed.is_simple /\ adv_parsed.must_have # << >>) =>
        \A d \in Docs :
            /\ (/\ HoldsAll(adv_index, d, adv_parsed.must_have)
                /\ ~HoldsAny(adv_index, d, adv_parsed.must_not_have))
                  => ReturnedWithScore(d)
            /\ ~HoldsAll(adv_index, d, adv_parsed.must_have) => ~Returned(d)

\* C28: for a query that is not simple and has must-not-have terms, rank()
\* returns a list, and no document of the list holds a must-not-have term
MustNotHaveExcludes ==
    (apc = "done" /\ ~adv_parsed.is_simple /\ adv_parsed.must_not_have # << >>) =>
        /\ adv_result.raised = "none"
        /\ \A d \in Docs :
              HoldsAny(adv_index, d, adv_parsed.must_not_have) => ~Returned(d)

----------------------------------------------------------------------------
(* Properties of QueryParser.parse, checked under SpecParse *)

\* C29: parse() takes the filters first, then the phrases, the wildcards, the
\* operators and the plain terms, each from what the stages before have left:
\* a filter inside quotes is a filter and no part of a phrase, a minus term
\* inside quotes is part of the phrase and no excluded term, and the parse of
\* "quick fox" site:example.com -cat has the phrase quick fox, the filter site
\* example.com, the excluded term cat, no plain term, and is not simple
ParseStagesInOrder ==
    qpc = "done" =>
        /\ parse_query = ExampleQuery =>
              /\ parsed.phrases = << "quick fox" >>
              /\ parsed.filters = [ n \in { "site" } |-> "example.com" ]
              /\ parsed.must_not_have = << "cat" >>
              /\ parsed.terms = << >>
              /\ ~parsed.is_simple
        /\ parse_query = QuotedFilter =>
              /\ parsed.filters = [ n \in { "site" } |-> "example.com" ]
              /\ parsed.phrases = << "fox" >>
        /\ parse_query = QuotedMinus =>
              /\ parsed.phrases = << "quick -cat" >>
              /\ parsed.must_not_have = << >>

\* the example has been parsed
ExampleParsed ==
    /\ qpc = "done"
    /\ parse_query = ExampleQuery
    /\ parsed.phrases = << "quick fox" >>
    /\ parsed.must_not_have = << "cat" >>

----------------------------------------------------------------------------
(* Properties of load_index, checked under SpecLoad *)

\* C30: every load_index returns without raising and leaves the files as they
\* are, and it returns the empty index when the index file is absent, cannot
\* be read or is not valid JSON
LoadNeverFails ==
    [][ \A t \in Threads :
          (ipc[t] = "load_read" /\ ipc'[t] = "idle") =>
              /\ loaded'.raised = "none"
              /\ files' = files
              /\ (\/ ~files[IndexFile].exists
                  \/ loaded'.error # "none"
                  \/ ~WellFormed(files[IndexFile].text)) => loaded'.value = EmptyIndex
      ]_vars

\* load_index has returned the empty index for a file that is there and is
\* not valid JSON
LoadedCorruptFile ==
    /\ files[IndexFile].exists
    /\ files[IndexFile].text # << >>
    /\ loaded.error = "ValueError"
    /\ loaded.raised = "none"
    /\ loaded.value = EmptyIndex
    /\ \A t \in Threads : ipc[t] = "idle"

----------------------------------------------------------------------------
(* Properties of persistence across instances, checked under SpecPersist *)

\* the documents with a posting of one of the tokens in the index
MatchingDocs(idx, query_tokens) ==
    { d \in Docs : \E i \in DOMAIN query_tokens :
        FirstPosting(PostingsOf(idx, query_tokens[i]), d) # 0 }

\* C23: a new Indexer and Ranker made over the index file after a flush return,
\* for a query, every document of the flushed index that matches the query
PersistsAcrossInstances ==
    ppc = "ranked" =>
        \A d \in MatchingDocs(new_saved, new_query) :
            \E i \in DOMAIN new_rank : new_rank[i].doc_id = d

\* the occurrences of the term in the document
Occurrences(idx, d, term) == LengthInPostings(PostingsOf(idx, term), d)

\* document a has the occurrences of document b and more of the query's terms
MoreOccurrences(idx, query_tokens, a, b) ==
    LET asked == { query_tokens[i] : i \in DOMAIN query_tokens } IN
    /\ \A term \in Terms \ asked : Occurrences(idx, a, term) = Occurrences(idx, b, term)
    /\ \A term \in asked : Occurrences(idx, a, term) >= Occurrences(idx, b, term)
    /\ \E term \in asked : Occurrences(idx, a, term) > Occurrences(idx, b, term)

\* the place of the document in the list, 0 when it is not there
PlaceOf(list, d) ==
    IF \E i \in DOMAIN list : list[i].doc_id = d
    THEN CHOOSE i \in DOMAIN list : list[i].doc_id = d
    ELSE 0

\* the last rank() scored a query over the index as it is now
RankedNow == rank_called /\ rank_query # << >> /\ rank_index = index

\* C25: rank() returns at most top_k pairs, in an order in which no score is
\* above one before it, and a document that has more occurrences of the
\* query's terms than another, and is the same otherwise, comes before it
RankOrdersByOccurrences ==
    /\ Len(rank_result) <= rank_top_k
    /\ \A i, j \in DOMAIN rank_result :
          i < j => ~FracGreater(rank_result[j].score, rank_result[i].score)
    /\ RankedNow =>
          \A a, b \in Docs :
              (MoreOccurrences(rank_index, rank_query, a, b)
               /\ PlaceOf(rank_result, b) # 0)
                  => /\ PlaceOf(rank_result, a) # 0
                     /\ PlaceOf(rank_result, a) < PlaceOf(rank_result, b)

----------------------------------------------------------------------------
(* Properties of the BM25 score, checked under SpecBm25 *)

\* C26: with the document length, the average length, the number of documents
\* and the document frequency the same, the score of the larger term frequency
\* is not below the score of the smaller, for k1 from 0 and b from 0 to 1
ScoreNonDecreasing ==
    bmpc = "done" => ~FracGreater(bm_scores[1], bm_scores[2])

\* a larger term frequency has got a larger score
ScoreIncreased ==
    /\ bmpc = "done"
    /\ bm_args.tf1 < bm_args.tf2
    /\ bm_args.k1.num > 0
    /\ FracGreater(bm_scores[2], bm_scores[1])

----------------------------------------------------------------------------
(* Properties of two crawl() calls on one Spider, checked under SpecCalls *)

\* C31: the visited set and the counters belong to one crawl() invocation:
\* a call starts from an empty visited set and zero counters, and the
\* statistics it returns count the fetches of its own tasks only, also when
\* another crawl() on the same Spider starts before it has finished.
StatisticsOfOwnCall ==
    \A c \in Callers :
        /\ (call_pc[c] = "seeds" /\ call_own[c] = [ crawled |-> 0, errors |-> 0 ]
               /\ \A o \in Callers \ { c } : call_pc[o] \in { "idle", "returned" })
              => (crawled_count = 0 /\ error_count = 0 /\ visited_urls = {})
        /\ call_pc[c] = "returned" =>
              /\ call_result[c].crawled = call_own[c].crawled
              /\ call_result[c].errors = call_own[c].errors

(* Properties of the same-domain restriction, checked under Spec *)

\* C32: every URL fetched has the netloc of the page on which it was
\* discovered, hence of some seed; of the hrefs of a fetched page exactly those
\* of the page's netloc are returned as links to follow, whatever their scheme
FetchedOnNetlocOfParent ==
    \A t \in DOMAIN tasks :
        /\ tasks[t].parent # 0 =>
              Netloc(tasks[t].url) = Netloc(tasks[tasks[t].parent].url)
        /\ \E i \in DOMAIN urls : Netloc(urls[i]) = Netloc(tasks[t].url)
        /\ (tasks[t].status = "done" /\ tasks[t].counted) =>
              \A h \in Range(tasks[t].hrefs) :
                  h \in Range(tasks[t].links) <=> Netloc(h) = Netloc(tasks[t].url)

\* a page reached over a link that differs from its page only in scheme was
\* fetched, while the link of the same page to another netloc was not
SchemeOnlyLinkFollowed ==
    \E t \in DOMAIN tasks :
        /\ tasks[t].parent # 0
        /\ tasks[t].url = "https://a/"
        /\ tasks[tasks[t].parent].url = "http://a/"
        /\ "http://b/" \in Range(web["http://a/"])
        /\ tasks[t].status = "done"
        /\ tasks[t].counted
        /\ \A o \in DOMAIN tasks : tasks[o].url # "http://b/"

(* Properties of the index lock during a flush, checked under SpecIndex *)

\* the positions of a thread inside Database.save_index while its temp file
\* is open or being replaced
Writing == { "save_write", "save_finally" }

\* C33: the index lock is held for in-memory mutation only: a thread that is
\* writing to storage does not hold the index lock, so that no
\* index_document call waits for the lock during the write
IndexLockNotHeldAcrossWrite ==
    \A t \in Threads : ipc[t] \in Writing => ilock # t

\* C34: what a flush() persists is the index of an instant at which no
\* index_document call was part-way through its terms: the snapshot of a flush
\* in progress, and the file a flush has saved, hold for every (term, document)
\* the occurrences in the calls completed so far, and no call has merged only
\* some of its terms
PersistedAtSingleInstant ==
    \A t \in Threads :
        /\ ipc[t] \in { "save_lock" } \cup Writing \cup { "flush_exit" } =>
              /\ \A o \in Threads : ipc[o] # "idx_merge"
              /\ \A term \in Terms, d \in Docs :
                    StoredFreq(serializable[t], term, d) = CountInCalls(term, docTokens[d])
        /\ (ipc[t] = "flush_exit" /\ ~failed[t]) =>
              \A term \in Terms, d \in Docs :
                  StoredFreq(LoadIndex(files[IndexFile]), term, d)
                      = CountInCalls(term, docTokens[d])

\* a flush() has saved the index that a completed call of two terms produced,
\* while an index_document call of another thread waits for the lock
FlushedBetweenCalls ==
    \E t \in Threads : \E o \in Threads \ { t } :
        /\ ipc[t] = "flush_exit"
        /\ ~failed[t]
        /\ ipc[o] = "idx_lock"
        /\ itokens[o] # << >>
        /\ \E d \in Docs :
              /\ docTokens[d] # << >>
              /\ \A term \in Terms : CountIn(term, docTokens[d][1]) > 0

(* Properties of restarted flushers, checked under SpecRestart *)

\* the flusher threads that have been started and have not ended
ActiveFlushers == { t \in Threads : flusher[t] \in Alive }

\* C35: over any sequence of start_auto_flush and stop_auto_flush calls at
\* most one background flusher thread is active at any time
AtMostOneFlusher == Cardinality(ActiveFlushers) <= 1

(* Properties of the calls of one hybrid search, checked under SpecHybrid *)

\* C36: in one hybrid search every configured source is invoked at most once,
\* through the executor and under the timeout of the collecting loop; no
\* source is called again outside the fan-out
EachSourceInvokedOnce ==
    \A src \in { "local", "google", "serpapi" } :
        /\ called[src] <= 1
        /\ ~Configured(src) => called[src] = 0

(* Properties of the cache across searches, checked under SpecSearch *)

\* every call the search made of a source raised
EverySourceFailed(lo, go, so, lo2) ==
    lo = Raises /\ go = Raises /\ so = Raises /\ lo2 = Raises

\* C37: search() writes to the cache only after a successful search: a
\* search() that missed the cache and whose routed search raised, or in which
\* every call of a configured source failed, leaves the cache unchanged
CacheWrittenOnlyOnSuccess ==
    [][ \A lo \in Outcomes, go \in Outcomes, so \in Outcomes, lo2 \in Outcomes :
          ( /\ nsearch' = nsearch + 1
            /\ ~was_hit'
            /\ OutcomesUsed(FALSE, lo, go, so, lo2)
            /\ EverySourceFailed(lo, go, so, lo2)
            /\ response' = ExecuteSearch(req_query', req_max', lo, go, so, lo2) )
          => cache' = cache
      ]_vars

\* C38: every response search() returns was computed under the mode
\* configured at the time of the call: the metadata.mode of a response that is
\* no error result is the current mode, also after set_mode changed the mode
ResponseOfCurrentMode ==
    [][ (nsearch' = nsearch + 1 /\ response'.source # "error")
          => response'.mode = mode' ]_vars

(* Properties of the crawl's statistics against the index, checked under Spec *)

\* the number of index_document calls of the crawl that completed
RECURSIVE IndexedIn(_)
IndexedIn(us) ==
    IF us = {} THEN 0
    ELSE LET u == CHOOSE x \in us : TRUE IN indexCalls[u] + IndexedIn(us \ { u })

\* C39: when crawl() returns, crawled_count is the number of documents the
\* crawl merged into the index; a page counted as an error was not merged
CrawledCountIsIndexedCount ==
    cpc = "returned" => crawl_result.crawled = IndexedIn(URLs)

(* Properties of the blended scores, checked under SpecBlend *)

\* C40: the blended list is in non-increasing order of blended score; the
\* blended score of a local result is its rank score times local_boost, and
\* that of the external result at rank i (from 0) of the n external results
\* handed over is (1 - i/n) times freshness_boost
BlendedByScore ==
    bpc = "done" =>
        /\ \A e \in 1..(Len(blended) - 1) :
              ~FracLess(blended[e].score, blended[e + 1].score)
        /\ \A e \in DOMAIN blended :
              LET i == blended[e].blend_position
                  n == Len(blend_api)
              IN IF blended[e].source = "local"
                 THEN /\ i + 1 \in DOMAIN blend_local
                      /\ blend_local[i + 1].url = blended[e].url
                      /\ FracEq(blended[e].score,
                                Frac(blend_local[i + 1].score.num * LocalBoostTenths,
                                     blend_local[i + 1].score.den * 10))
                 ELSE /\ i + 1 \in DOMAIN blend_api
                      /\ blend_api[i + 1].url = blended[e].url
                      /\ FracEq(blended[e].score,
                                Frac((n - i) * FreshnessBoostTenths, n * 10))

\* a blend in which both external results come before a local result, the
\* second external result with the decayed score of rank 1 of 2
ExternalDecayedAboveLocal ==
    /\ bpc = "done"
    /\ Len(blend_api) = 2
    /\ \E e, f, g \in DOMAIN blended :
          /\ e < f /\ f < g
          /\ blended[e].source # "local" /\ blended[e].blend_position = 0
          /\ blended[f].source # "local" /\ blended[f].blend_position = 1
          /\ blended[g].source = "local"
          /\ FracLess(blended[f].score, blended[e].score)
          /\ FracLess(blended[g].score, blended[f].score)

====
